---- MODULE Spec2Model ----
(***************************************************************************)
(* Task Management API (FastAPI + SQLite): session authentication layered *)
(* over task CRUD.  The state is the three tables of tasks.db (members,    *)
(* sessions, tasks), the wall clock, the process phase and the last HTTP   *)
(* response.  Every request handler of main.py is one action; the          *)
(* TaskModel methods of models.py are operators over the tables.           *)
(*                                                                         *)
(* Modelling conventions                                                   *)
(*  - A Python string that the code takes apart (the Authorization header, *)
(*    a session token) is a sequence of atoms: the scheme prefix           *)
(*    "Bearer " is one atom, a JWT is one atom carrying its payload.       *)
(*  - uuid.uuid4() is modelled as a fresh value (a counter): values it     *)
(*    returned before are never returned again.                            *)
(*  - Time is counted in hours; datetime.now().isoformat() strings of one  *)
(*    clock compare like the instants they denote, so expiresAt and "now"  *)
(*    are integers.                                                        *)
(*  - The profile columns of members (relationship, nickname, gender,      *)
(*    birthday) and taskName/category of tasks are stored and returned     *)
(*    verbatim and never decide anything; taskName stands for both task    *)
(*    text columns, the profile columns are left out of the rows.          *)
(***************************************************************************)
EXTENDS Integers, Sequences, FiniteSets, TLC

VARIABLES
    members,      \* table members: rows [userId, email, password]
    sessions,     \* table sessions: rows [sessionId, userId, sessionToken, expiresAt]
    tasks,        \* table tasks: rows [taskId, userId, taskName, time, status]
    nextTaskId,   \* sqlite_sequence of tasks (AUTOINCREMENT)
    nextUid,      \* next value uuid4() yields for a user ID
    nextSid,      \* next value uuid4() yields for a session ID
    now,          \* wall clock, in hours
    steps,        \* number of state-changing operations so far
    phase,        \* "stopped" | "serving"
    resp,         \* the last HTTP exchange (request inputs and response)
    registered,   \* history: [email, password, userId] of every member created
    issued,       \* history: every token create_session stored
    superseded,   \* history: tokens of a user issued before that user's latest session
    revoked,      \* history: tokens whose row delete_session removed
    ledger,       \* history: the task rows the 200 responses told the clients of
    inflight,     \* concurrent serving: the request each slot is handling
    wlock,        \* concurrent serving: the slot holding SQLite's write lock, or 0
    tasks0        \* concurrent serving: the tasks table when the requests arrived

vars == <<members, sessions, tasks, nextTaskId, nextUid, nextSid, now, steps,
          phase, resp, registered, issued, superseded, revoked, ledger,
          inflight, wlock, tasks0>>

db == <<members, sessions, tasks, nextTaskId>>
history == <<registered, issued, superseded, revoked>>
conc == <<inflight, wlock, tasks0>>

----------------------------------------------------------------------------
(* Bounds of the model *)

\* the number of state-changing operations (requests that commit, clock
\* advances) a behaviour may hold
MaxSteps == 4

(* 24*365*5 hours: the lifetime create_session gives a session *)
SESSION_LIFETIME == 24 * 365 * 5

NoUser == 0
NoTask == 0

----------------------------------------------------------------------------
(* Strings *)

Atom(kind, user_id, session_id, exp) ==
    [kind |-> kind, user_id |-> user_id, session_id |-> session_id, exp |-> exp]

EmptyStr == << >>

\* the literal "Bearer "
BearerPrefix == << Atom("Bearer ", NoUser, 0, 0) >>

\* jwt.encode({'user_id':..., 'session_id':..., 'exp':...}, key, 'HS256')
jwt_encode(user_id, session_id, exp) == << Atom("jwt", user_id, session_id, exp) >>

\* str.startswith
startswith(s, prefix) ==
    /\ Len(s) >= Len(prefix)
    /\ SubSeq(s, 1, Len(prefix)) = prefix

\* str.replace(old, ""), for a one-atom old: every occurrence is removed
replace_with_empty(s, old) == SelectSeq(s, LAMBDA a : a # old[1])

\* v.strip().lower() of the email validators
NormEmail(e) ==
    CASE e = "A@X.COM " -> "a@x.com"
      [] OTHER -> e

\* v.strip() of the password validators
NormPassword(p) ==
    CASE p = " secret2 " -> "secret2"
      [] OTHER -> p

\* a list of statuses that is not closed: it lets one more value through
valid_statuses_open ==
    {"pending", "in_progress", "completed", "cancelled", "on_hold", "bogus"}

\* v.lower() of validate_status, and the closed list it checks against
valid_statuses == {"pending", "in_progress", "completed", "cancelled", "on_hold"}

LowerStatus(s) ==
    CASE s = "PENDING" -> "pending"
      [] OTHER -> s

----------------------------------------------------------------------------
(* Inputs the clients send *)

RawEmails == {"a@x.com", "A@X.COM ", "b@x.com"}
RawPasswords == {"secret1", " secret2 "}
TaskNames == {"n1"}
\* the column tasks.time is TEXT: the request's string is stored unparsed and
\* ORDER BY compares the stored texts byte by byte; a time is modelled by
\* the rank of its text in that order
TaskTimes == {1, 2}
RawStatuses == {"PENDING", "bogus"}

\* a token no create_session ever produced
ForgedToken == jwt_encode(1, 0, SESSION_LIFETIME)

\* tokens a client may present as a parameter: every token ever stored, and
\* a forged one
ClientTokens == issued \cup {ForgedToken}

\* Authorization headers: none; the bearer form of every client token; and
\* the tokens of the stored sessions without the scheme
Headers ==
    {EmptyStr}
    \cup {BearerPrefix \o t : t \in ClientTokens}
    \cup {r.sessionToken : r \in sessions}

----------------------------------------------------------------------------
(* TaskModel: members *)

\* add_new_member on a members table without the UNIQUE constraint on email
add_new_member_no_unique(mem, user_id, email, password) ==
    IF \E r \in mem : r.userId = user_id
    THEN [ok |-> FALSE, members |-> mem, error |-> "email might already exist"]
    ELSE [ok |-> TRUE,
          members |-> mem \cup {[userId |-> user_id, email |-> email,
                                 password |-> password]},
          error |-> ""]

\* INSERT INTO members: userId is the PRIMARY KEY and email is UNIQUE; a
\* violated constraint is sqlite3.IntegrityError, which add_new_member turns
\* into "Failed to create member - email might already exist"
add_new_member(mem, user_id, email, password) ==
    IF \E r \in mem : r.userId = user_id \/ r.email = email
    THEN [ok |-> FALSE, members |-> mem, error |-> "email might already exist"]
    ELSE [ok |-> TRUE,
          members |-> mem \cup {[userId |-> user_id, email |-> email,
                                 password |-> password]},
          error |-> ""]

\* SELECT userId FROM members WHERE email = ? AND password = ?  (fetchone)
getUser_WHERE_email_only(mem, email, password) ==
    LET hit == {r \in mem : r.email = email}
    IN  IF hit = {} THEN NoUser ELSE (CHOOSE r \in hit : TRUE).userId

getUser(mem, email, password) ==
    LET hit == {r \in mem : r.email = email /\ r.password = password}
    IN  IF hit = {} THEN NoUser ELSE (CHOOSE r \in hit : TRUE).userId

----------------------------------------------------------------------------
(* TaskModel: sessions *)

\* the row create_session inserts at time t
session_row(user_id, session_id, t) ==
    [sessionId |-> session_id,
     userId |-> user_id,
     sessionToken |-> jwt_encode(user_id, session_id, t + SESSION_LIFETIME),
     expiresAt |-> t + SESSION_LIFETIME]

\* create_session without its DELETE: the insert is additive
create_session_additive(sess, user_id, session_id, t) ==
    LET row == session_row(user_id, session_id, t)
    IN  [ok |-> TRUE, sessions |-> sess \cup {row},
         sessionToken |-> row.sessionToken, expiresAt |-> row.expiresAt]

\* create_session storing a digest of the token in place of the token
create_session_storing_digest(sess, user_id, session_id, t) ==
    LET row == session_row(user_id, session_id, t)
        kept == {r \in sess : r.userId # user_id}
        digest == << Atom("sha256", user_id, session_id, row.expiresAt) >>
    IN  [ok |-> TRUE,
         sessions |-> kept \cup {[row EXCEPT !.sessionToken = digest]},
         sessionToken |-> row.sessionToken, expiresAt |-> row.expiresAt]

\* create_session taking the user ID for the session ID: the token of a
\* user is the same at every creation within one clock value
create_session_reusing_session_id(sess, user_id, session_id, t) ==
    LET row == session_row(user_id, user_id, t)
        kept == {r \in sess : r.userId # user_id}
    IN  [ok |-> TRUE, sessions |-> kept \cup {row},
         sessionToken |-> row.sessionToken, expiresAt |-> row.expiresAt]

\* create_session whose DELETE is committed on its own: a refused INSERT
\* leaves the user's rows deleted
create_session_DELETE_autocommitted(sess, user_id, session_id, t) ==
    LET row == session_row(user_id, session_id, t)
        kept == {r \in sess : r.userId # user_id}
    IN  IF \E r \in kept : r.sessionId = row.sessionId
                           \/ r.sessionToken = row.sessionToken
        THEN [ok |-> FALSE, sessions |-> kept,
              sessionToken |-> EmptyStr, expiresAt |-> 0]
        ELSE [ok |-> TRUE, sessions |-> kept \cup {row},
              sessionToken |-> row.sessionToken, expiresAt |-> row.expiresAt]

\* DELETE FROM sessions WHERE userId = ?; INSERT INTO sessions ...; commit.
\* sessionId is the PRIMARY KEY and sessionToken is UNIQUE: a violated
\* constraint raises before the commit and the connection is closed with the
\* DELETE uncommitted, so the table is as before
create_session(sess, user_id, session_id, t) ==
    LET row == session_row(user_id, session_id, t)
        kept == {r \in sess : r.userId # user_id}
    IN  IF \E r \in kept : r.sessionId = row.sessionId
                           \/ r.sessionToken = row.sessionToken
        THEN [ok |-> FALSE, sessions |-> sess,
              sessionToken |-> EmptyStr, expiresAt |-> 0]
        ELSE [ok |-> TRUE, sessions |-> kept \cup {row},
              sessionToken |-> row.sessionToken, expiresAt |-> row.expiresAt]

\* validate_session accepting a row whose expiry equals the validation time
validate_session_inclusive(sess, session_token, t) ==
    LET hit == {r \in sess : r.sessionToken = session_token /\ r.expiresAt >= t}
    IN  IF hit = {} THEN NoUser ELSE (CHOOSE r \in hit : TRUE).userId

\* validate_session that decodes the token and trusts its claims instead of
\* looking the token up
validate_session_by_claim(sess, session_token, t) ==
    IF Len(session_token) = 1 /\ session_token[1].kind = "jwt"
       /\ session_token[1].exp > t
    THEN session_token[1].user_id
    ELSE NoUser

\* SELECT userId FROM sessions WHERE sessionToken = ? AND expiresAt > ?
validate_session(sess, session_token, t) ==
    LET hit == {r \in sess : r.sessionToken = session_token /\ r.expiresAt > t}
    IN  IF hit = {} THEN NoUser ELSE (CHOOSE r \in hit : TRUE).userId

\* delete_session that removes nothing
delete_session_noop(sess, user_id) ==
    [sessions |-> sess, deleted |-> \E r \in sess : r.userId = user_id]

\* delete_session whose DELETE has no WHERE clause
delete_session_all_users(sess, user_id) ==
    [sessions |-> {}, deleted |-> \E r \in sess : r.userId = user_id]

\* DELETE FROM sessions WHERE userId = ?; returns rowcount > 0
delete_session(sess, user_id) ==
    [sessions |-> {r \in sess : r.userId # user_id},
     deleted |-> \E r \in sess : r.userId = user_id]

\* cleanup_expired_sessions comparing with < : a row expiring now survives
cleanup_expired_sessions_strict(sess, t) ==
    [sessions |-> {r \in sess : ~(r.expiresAt < t)},
     deleted_count |-> Cardinality({r \in sess : r.expiresAt < t})]

\* cleanup_expired_sessions reporting the size of the table it swept
cleanup_expired_sessions_count_all(sess, t) ==
    [sessions |-> {r \in sess : ~(r.expiresAt <= t)},
     deleted_count |-> Cardinality(sess)]

\* DELETE FROM sessions WHERE expiresAt <= ?; returns rowcount
cleanup_expired_sessions(sess, t) ==
    [sessions |-> {r \in sess : ~(r.expiresAt <= t)},
     deleted_count |-> Cardinality({r \in sess : r.expiresAt <= t})]

----------------------------------------------------------------------------
(* TaskModel: tasks *)

NoRow == [taskId |-> NoTask, userId |-> NoUser, taskName |-> "", time |-> 0,
          status |-> ""]

\* INSERT INTO tasks ...; returns cursor.lastrowid
create_task(tsk, task_id, user_id, task_name, time, status) ==
    tsk \cup {[taskId |-> task_id, userId |-> user_id, taskName |-> task_name,
               time |-> time, status |-> status]}

\* SELECT ... FROM tasks WHERE taskId = ?  (fetchone, None when absent)
get_task_by_id(tsk, task_id) ==
    LET hit == {r \in tsk : r.taskId = task_id}
    IN  IF hit = {} THEN NoRow ELSE CHOOSE r \in hit : TRUE

\* UPDATE tasks SET userId = ?, taskName = ?, ... WHERE taskId = ?
update_task(tsk, task_id, user_id, task_name, time, status) ==
    [tasks |-> {IF r.taskId = task_id
                THEN [taskId |-> task_id, userId |-> user_id,
                      taskName |-> task_name, time |-> time, status |-> status]
                ELSE r : r \in tsk},
     success |-> \E r \in tsk : r.taskId = task_id]

\* DELETE FROM tasks WHERE taskId = ?
delete_task(tsk, task_id) ==
    [tasks |-> {r \in tsk : r.taskId # task_id},
     success |-> \E r \in tsk : r.taskId = task_id]

\* a SELECT without ORDER BY: the rows come in the order of their rowid
OrderByRowid(rows) ==
    LET n == Cardinality(rows)
    IN  {q \in [1..n -> rows] :
            /\ \A i, j \in 1..n : i # j => q[i] # q[j]
            /\ \A i \in 1..n : \A j \in 1..n : i < j => q[i].taskId < q[j].taskId}

\* the results ORDER BY time DESC allows for a set of rows: every listing of
\* all the rows with non-increasing time (the order of ties is not fixed)
OrderByTimeDesc(rows) ==
    LET n == Cardinality(rows)
    IN  {q \in [1..n -> rows] :
            /\ \A i, j \in 1..n : i # j => q[i] # q[j]
            /\ \A i \in 1..n : \A j \in 1..n : i < j => q[i].time >= q[j].time}

\* SELECT ... FROM tasks ORDER BY time DESC
get_all_tasks(tsk) == OrderByTimeDesc(tsk)

\* get_tasks_by_user whose SELECT has no WHERE clause
get_tasks_by_user_all_users(tsk, user_id) == OrderByTimeDesc(tsk)

\* SELECT ... FROM tasks WHERE userId = ? ORDER BY time DESC
get_tasks_by_user(tsk, user_id) == OrderByTimeDesc({r \in tsk : r.userId = user_id})

----------------------------------------------------------------------------
(* Response models of schemas.py: the fields each one requires *)

UserRegisterResponse ==
    {"userId", "email", "relationship", "gender", "nickname", "birthday",
     "message", "session"}

UserLoginResponse ==
    {"userId", "email", "relationship", "gender", "nickname", "birthday",
     "message", "session"}

TaskResponse == {"taskId", "userId", "taskName", "category", "time", "status"}

\* the keyword arguments the handlers construct the models with
register_user_kwargs == {"userId", "message", "session"}
login_user_kwargs == {"userId", "message", "session"}
task_kwargs == {"taskId", "userId", "taskName", "category", "time", "status"}

\* pydantic: constructing a model without one of its required fields raises
\* ValidationError
model_validates(required, given) == required \subseteq given

----------------------------------------------------------------------------
(* The last HTTP exchange *)

NoReq == [taskName |-> "", time |-> 0, status |-> ""]

NoResp ==
    [ep |-> "none", status |-> 0, detail |-> "",
     auth |-> EmptyStr,      \* Authorization header, or session_token parameter
     user |-> NoUser,        \* the user ID the session resolved to
     email |-> "", password |-> "",       \* request body of register / login
     taskId |-> NoTask, pathUser |-> NoUser, req |-> NoReq,
     bodyUser |-> NoUser,    \* userId of the response body
     bodyToken |-> EmptyStr, \* session.sessionToken of the response body
     bodyExpires |-> 0,      \* session.expiresAt of the response body
     task |-> NoRow,         \* the task of the response body
     list |-> << >>,         \* the task list of the response body
     valid |-> FALSE,        \* "valid" of GET /session/validate
     count |-> 0]            \* deleted_count of the startup sweep

BearerEndpoints ==
    {"POST /task", "PUT /task", "DELETE /task", "GET /tasks", "GET /tasks/user"}

\* what a client that sent the request of rsp knows of the tasks once it has
\* read the response: a 200 to POST /task tells it of a new row with the ID
\* reported and the values sent, a 200 to PUT /task replaces the row of that
\* ID by the values sent, a 200 to DELETE /task removes it
LedgerAfter(ldg, rsp) ==
    IF rsp.status # 200 THEN ldg
    ELSE CASE rsp.ep = "POST /task" ->
                  ldg \cup {[taskId |-> rsp.task.taskId, userId |-> rsp.user,
                             taskName |-> rsp.req.taskName, time |-> rsp.req.time,
                             status |-> LowerStatus(rsp.req.status)]}
           [] rsp.ep = "PUT /task" ->
                  {r \in ldg : r.taskId # rsp.taskId}
                  \cup {[taskId |-> rsp.taskId, userId |-> rsp.user,
                          taskName |-> rsp.req.taskName, time |-> rsp.req.time,
                          status |-> LowerStatus(rsp.req.status)]}
           [] rsp.ep = "DELETE /task" -> {r \in ldg : r.taskId # rsp.taskId}
           [] OTHER -> ldg

----------------------------------------------------------------------------
(* Authorization middleware *)

\* get_current_user that trusts the user_id claim embedded in the token
get_current_user_trusting_claim(authorization, sess, t) ==
    IF authorization = EmptyStr \/ ~startswith(authorization, BearerPrefix)
    THEN [status |-> 401, detail |-> "Valid session token is required",
          user |-> NoUser]
    ELSE LET session_token == replace_with_empty(authorization, BearerPrefix)
         IN  IF Len(session_token) = 1 /\ session_token[1].kind = "jwt"
                /\ session_token[1].exp > t
             THEN [status |-> 200, detail |-> "", user |-> session_token[1].user_id]
             ELSE [status |-> 401, detail |-> "Session expired or invalid",
                   user |-> NoUser]

\* get_current_user that says which failure it met: a stored row whose expiry
\* has passed is reported apart from a token that matches no row
get_current_user_naming_expiry(authorization, sess, t) ==
    IF authorization = EmptyStr \/ ~startswith(authorization, BearerPrefix)
    THEN [status |-> 401, detail |-> "Valid session token is required",
          user |-> NoUser]
    ELSE LET session_token == replace_with_empty(authorization, BearerPrefix)
             user_id == validate_session(sess, session_token, t)
         IN  IF user_id = NoUser
             THEN [status |-> 401,
                   detail |-> IF \E r \in sess : r.sessionToken = session_token
                              THEN "Session expired"
                              ELSE "Session invalid",
                   user |-> NoUser]
             ELSE [status |-> 200, detail |-> "", user |-> user_id]

\* get_current_user: 401 unless the header starts with "Bearer " and the
\* token left after removing "Bearer " validates
get_current_user(authorization, sess, t) ==
    IF authorization = EmptyStr \/ ~startswith(authorization, BearerPrefix)
    THEN [status |-> 401, detail |-> "Valid session token is required",
          user |-> NoUser]
    ELSE LET session_token == replace_with_empty(authorization, BearerPrefix)
             user_id == validate_session(sess, session_token, t)
         IN  IF user_id = NoUser
             THEN [status |-> 401, detail |-> "Session expired or invalid",
                   user |-> NoUser]
             ELSE [status |-> 200, detail |-> "", user |-> user_id]

----------------------------------------------------------------------------
(* Handler bodies of the task endpoints, after authentication *)

\* update_task's body without the ownership comparison
update_task_body_no_owner_check(tsk, current_user_id, task_id, task_name, time, status) ==
    LET existing_task == get_task_by_id(tsk, task_id)
        u == update_task(tsk, task_id, current_user_id, task_name, time, status)
    IN  IF existing_task = NoRow
        THEN [status |-> 404, detail |-> "Task not found", tasks |-> tsk,
              task |-> NoRow]
        ELSE [status |-> 200, detail |-> "", tasks |-> u.tasks,
              task |-> get_task_by_id(u.tasks, task_id)]

\* PUT /task
update_task_body(tsk, current_user_id, task_id, task_name, time, status) ==
    LET existing_task == get_task_by_id(tsk, task_id)
        u == update_task(tsk, task_id, current_user_id, task_name, time, status)
    IN  IF existing_task = NoRow
        THEN [status |-> 404, detail |-> "Task not found", tasks |-> tsk,
              task |-> NoRow]
        ELSE IF existing_task.userId # current_user_id
        THEN [status |-> 403, detail |-> "You can only update your own tasks",
              tasks |-> tsk, task |-> NoRow]
        ELSE IF ~u.success
        THEN [status |-> 500, detail |-> "Failed to update task", tasks |-> u.tasks,
              task |-> NoRow]
        ELSE IF ~model_validates(TaskResponse, task_kwargs)
        THEN [status |-> 500, detail |-> "Failed to update task", tasks |-> u.tasks,
              task |-> NoRow]
        ELSE [status |-> 200, detail |-> "", tasks |-> u.tasks,
              task |-> get_task_by_id(u.tasks, task_id)]

\* delete_task's body with the DELETE issued before the ownership comparison
delete_task_body_delete_first(tsk, current_user_id, task_id) ==
    LET existing_task == get_task_by_id(tsk, task_id)
        d == delete_task(tsk, task_id)
    IN  IF existing_task = NoRow
        THEN [status |-> 404, detail |-> "Task not found", tasks |-> tsk]
        ELSE IF existing_task.userId # current_user_id
        THEN [status |-> 403, detail |-> "You can only delete your own tasks",
              tasks |-> d.tasks]
        ELSE [status |-> 200, detail |-> "deleted successfully", tasks |-> d.tasks]

\* DELETE /task/{task_id}
delete_task_body(tsk, current_user_id, task_id) ==
    LET existing_task == get_task_by_id(tsk, task_id)
        d == delete_task(tsk, task_id)
    IN  IF existing_task = NoRow
        THEN [status |-> 404, detail |-> "Task not found", tasks |-> tsk]
        ELSE IF existing_task.userId # current_user_id
        THEN [status |-> 403, detail |-> "You can only delete your own tasks",
              tasks |-> tsk]
        ELSE IF ~d.success
        THEN [status |-> 500, detail |-> "Failed to delete task", tasks |-> d.tasks]
        ELSE [status |-> 200, detail |-> "deleted successfully", tasks |-> d.tasks]

----------------------------------------------------------------------------
(* Initial state: a fresh tasks.db, the process not yet started *)

Init ==
    /\ members = {}
    /\ sessions = {}
    /\ tasks = {}
    /\ nextTaskId = 1
    /\ nextUid = 1
    /\ nextSid = 1
    /\ now = 0
    /\ steps = 0
    /\ phase = "stopped"
    /\ resp = NoResp
    /\ registered = {}
    /\ issued = {}
    /\ superseded = {}
    /\ revoked = {}
    /\ ledger = {}
    /\ inflight = << >>
    /\ wlock = 0
    /\ tasks0 = {}

----------------------------------------------------------------------------
(* Process life cycle and clock.  The server handles one exchange at a     *)
(* time (the handlers are coroutines that never await): a request is taken *)
(* when no exchange is open, and Respond closes the exchange.              *)

Idle == resp = NoResp

\* the response is sent
Respond ==
    /\ resp # NoResp
    /\ resp' = NoResp
    /\ UNCHANGED <<db, nextUid, nextSid, now, steps, phase, history, ledger, conc>>

\* lifespan that initialises the tables and does not sweep
Lifespan_without_cleanup ==
    /\ phase = "stopped"
    /\ Idle
    /\ UNCHANGED <<ledger, conc>>
    /\ resp' = [NoResp EXCEPT !.ep = "startup"]
    /\ phase' = "serving"
    /\ UNCHANGED <<db, nextUid, nextSid, now, steps, history>>

\* lifespan: init_db (CREATE TABLE IF NOT EXISTS: existing rows stay), then
\* cleanup_expired_sessions, then the application serves requests
Lifespan ==
    /\ phase = "stopped"
    /\ Idle
    /\ UNCHANGED <<ledger, conc>>
    /\ LET c == cleanup_expired_sessions(sessions, now)
       IN  /\ sessions' = c.sessions
           /\ resp' = [NoResp EXCEPT !.ep = "startup", !.count = c.deleted_count]
    /\ phase' = "serving"
    /\ UNCHANGED <<members, tasks, nextTaskId, nextUid, nextSid, now, steps, history>>

\* the process exits; tasks.db stays on disk
Shutdown ==
    /\ phase = "serving"
    /\ Idle
    /\ UNCHANGED <<ledger, conc>>
    /\ phase' = "stopped"
    /\ UNCHANGED <<db, nextUid, nextSid, now, steps, resp, history>>

\* time passes: an hour, or a whole session lifetime
Tick ==
    /\ Idle
    /\ UNCHANGED <<ledger, conc>>
    /\ steps < MaxSteps
    /\ \E d \in {1, SESSION_LIFETIME} : now' = now + d
    /\ steps' = steps + 1
    /\ UNCHANGED <<db, nextUid, nextSid, phase, resp, history>>

----------------------------------------------------------------------------
(* Session endpoints *)

\* register_user, user_id being the value str(uuid.uuid4())[:30] takes in
\* add_new_member
register_user(e, p, user_id) ==
    /\ phase = "serving"
    /\ Idle
    /\ UNCHANGED <<ledger, conc>>
    /\ LET email == NormEmail(e)
           password == NormPassword(p)
           m == add_new_member(members, user_id, email, password)
           s == create_session(sessions, user_id, nextSid, now)
           base == [NoResp EXCEPT !.ep = "POST /register", !.email = e,
                                  !.password = p]
       IN  IF ~m.ok
           THEN /\ resp' = [base EXCEPT !.status = 409,
                                        !.detail = "Email already exists"]
                /\ UNCHANGED <<db, nextUid, nextSid, steps, history>>
           ELSE /\ steps < MaxSteps
                /\ steps' = steps + 1
                /\ members' = m.members
                /\ nextUid' = nextUid + 1
                /\ registered' = registered \cup
                       {[email |-> e, password |-> p, userId |-> user_id]}
                /\ IF ~s.ok
                   THEN /\ resp' = [base EXCEPT !.status = 500,
                                !.detail = "Failed to register user: Failed to create session"]
                        /\ sessions' = s.sessions
                        /\ UNCHANGED <<nextSid, issued, superseded>>
                   ELSE /\ sessions' = s.sessions
                        /\ nextSid' = nextSid + 1
                        /\ issued' = issued \cup {s.sessionToken}
                        /\ superseded' = superseded \cup
                               {t \in issued : t[1].user_id = user_id}
                        /\ resp' =
                             IF model_validates(UserRegisterResponse,
                                                register_user_kwargs)
                             THEN [base EXCEPT !.status = 201,
                                       !.detail = "User registered successfully",
                                       !.bodyUser = user_id,
                                       !.bodyToken = s.sessionToken,
                                       !.bodyExpires = s.expiresAt]
                             ELSE [base EXCEPT !.status = 500,
                                       !.detail = "Failed to register user"]
                /\ UNCHANGED <<tasks, nextTaskId, revoked>>
    /\ UNCHANGED <<now, phase>>

\* POST /register; uuid4 yields a value it has not yielded before
Register(e, p) == register_user(e, p, nextUid)

\* login_user, with the value uuid4 yields for the session ID
login_user(e, p, session_id) ==
    /\ phase = "serving"
    /\ Idle
    /\ UNCHANGED <<ledger, conc>>
    /\ LET user_id == getUser(members, NormEmail(e), NormPassword(p))
           s == create_session(sessions, user_id, session_id, now)
           base == [NoResp EXCEPT !.ep = "POST /login", !.email = e,
                                  !.password = p]
       IN  IF user_id = NoUser
           THEN /\ resp' = [base EXCEPT !.status = 401,
                                        !.detail = "Invalid email or password"]
                /\ UNCHANGED <<sessions, nextSid, steps, issued, superseded>>
           ELSE IF ~s.ok
           THEN /\ resp' = [base EXCEPT !.status = 500,
                        !.detail = "Failed to login: Failed to create session"]
                /\ sessions' = s.sessions
                /\ UNCHANGED <<nextSid, steps, issued, superseded>>
           ELSE /\ steps < MaxSteps
                /\ steps' = steps + 1
                /\ sessions' = s.sessions
                /\ nextSid' = nextSid + 1
                /\ issued' = issued \cup {s.sessionToken}
                /\ superseded' = superseded \cup
                       {t \in issued : t[1].user_id = user_id}
                /\ resp' =
                     IF model_validates(UserLoginResponse, login_user_kwargs)
                     THEN [base EXCEPT !.status = 200,
                               !.detail = "Login successful",
                               !.bodyUser = user_id,
                               !.bodyToken = s.sessionToken,
                               !.bodyExpires = s.expiresAt]
                     ELSE [base EXCEPT !.status = 500,
                               !.detail = "Failed to login"]
    /\ UNCHANGED <<members, tasks, nextTaskId, nextUid, now, phase,
                   registered, revoked>>

\* POST /login dropping the session of the email's user when the
\* password does not match
Login_dropping_session_on_failure(e, p) ==
    /\ phase = "serving"
    /\ Idle
    /\ UNCHANGED <<ledger, conc>>
    /\ LET user_id == getUser(members, NormEmail(e), NormPassword(p))
           s == create_session(sessions, user_id, nextSid, now)
           base == [NoResp EXCEPT !.ep = "POST /login", !.email = e,
                                  !.password = p]
       IN  IF user_id = NoUser
           THEN /\ resp' = [base EXCEPT !.status = 401,
                                        !.detail = "Invalid email or password"]
                /\ sessions' = {r \in sessions : \A m \in members :
                                    m.email = NormEmail(e) => r.userId # m.userId}
                /\ UNCHANGED <<nextSid, steps, issued, superseded>>
           ELSE IF ~s.ok
           THEN /\ resp' = [base EXCEPT !.status = 500,
                        !.detail = "Failed to login: Failed to create session"]
                /\ sessions' = s.sessions
                /\ UNCHANGED <<nextSid, steps, issued, superseded>>
           ELSE /\ steps < MaxSteps
                /\ steps' = steps + 1
                /\ sessions' = s.sessions
                /\ nextSid' = nextSid + 1
                /\ issued' = issued \cup {s.sessionToken}
                /\ superseded' = superseded \cup
                       {t \in issued : t[1].user_id = user_id}
                /\ resp' =
                     IF model_validates(UserLoginResponse, login_user_kwargs)
                     THEN [base EXCEPT !.status = 200,
                               !.detail = "Login successful",
                               !.bodyUser = user_id,
                               !.bodyToken = s.sessionToken,
                               !.bodyExpires = s.expiresAt]
                     ELSE [base EXCEPT !.status = 500,
                               !.detail = "Failed to login"]
    /\ UNCHANGED <<members, tasks, nextTaskId, nextUid, now, phase,
                   registered, revoked>>

\* POST /login; uuid4 yields a value it has not yielded before
Login(e, p) == login_user(e, p, nextSid)

\* POST /logout
Logout(session_token) ==
    /\ phase = "serving"
    /\ Idle
    /\ UNCHANGED <<ledger, conc>>
    /\ LET user_id == validate_session(sessions, session_token, now)
           d == delete_session(sessions, user_id)
           base == [NoResp EXCEPT !.ep = "POST /logout", !.auth = session_token]
       IN  IF user_id # NoUser
           THEN /\ steps < MaxSteps
                /\ steps' = steps + 1
                /\ sessions' = d.sessions
                /\ revoked' = revoked \cup
                       {r.sessionToken : r \in {x \in sessions : x.userId = user_id}}
                /\ resp' = [base EXCEPT !.status = 200, !.user = user_id,
                                        !.detail = "Logout successful"]
           ELSE /\ resp' = [base EXCEPT !.status = 401,
                                        !.detail = "Invalid session token"]
                /\ UNCHANGED <<sessions, steps, revoked>>
    /\ UNCHANGED <<members, tasks, nextTaskId, nextUid, nextSid, now, phase,
                   registered, issued, superseded>>

\* validate_session's endpoint deleting the row it finds expired
ValidateSession_purging(session_token) ==
    /\ phase = "serving"
    /\ Idle
    /\ UNCHANGED <<ledger, conc>>
    /\ LET user_id == validate_session(sessions, session_token, now)
           base == [NoResp EXCEPT !.ep = "GET /session/validate",
                                  !.auth = session_token, !.status = 200]
       IN  resp' = IF user_id # NoUser
                   THEN [base EXCEPT !.valid = TRUE, !.bodyUser = user_id]
                   ELSE [base EXCEPT !.detail = "Invalid or expired session token"]
    /\ sessions' = {r \in sessions :
                       ~(r.sessionToken = session_token /\ r.expiresAt <= now)}
    /\ UNCHANGED <<members, tasks, nextTaskId, nextUid, nextSid, now, steps, phase,
                   history>>

\* GET /session/validate
ValidateSession(session_token) ==
    /\ phase = "serving"
    /\ Idle
    /\ UNCHANGED <<ledger, conc>>
    /\ LET user_id == validate_session(sessions, session_token, now)
           base == [NoResp EXCEPT !.ep = "GET /session/validate",
                                  !.auth = session_token, !.status = 200]
       IN  resp' = IF user_id # NoUser
                   THEN [base EXCEPT !.valid = TRUE, !.bodyUser = user_id]
                   ELSE [base EXCEPT !.detail = "Invalid or expired session token"]
    /\ UNCHANGED <<db, nextUid, nextSid, now, steps, phase, history>>

----------------------------------------------------------------------------
(* Task endpoints.  Each declares current_user_id = Depends(get_current_user):*)
(* the dependency runs first and, when it raises, the request is answered   *)
(* with its 401 and neither body validation nor the handler runs.           *)

\* a request to a bearer-protected endpoint that get_current_user rejects
RejectUnauthenticated(ep, authorization) ==
    /\ phase = "serving"
    /\ Idle
    /\ UNCHANGED <<ledger, conc>>
    /\ LET a == get_current_user(authorization, sessions, now)
       IN  /\ a.status # 200
           /\ resp' = [NoResp EXCEPT !.ep = ep, !.auth = authorization,
                                     !.status = a.status, !.detail = a.detail]
    /\ UNCHANGED <<db, nextUid, nextSid, now, steps, phase, history>>

\* POST /task
CreateTask(authorization, task_name, time, raw_status) ==
    /\ phase = "serving"
    /\ Idle
    /\ UNCHANGED conc
    /\ LET a == get_current_user(authorization, sessions, now)
           status == LowerStatus(raw_status)
           task_id == nextTaskId
           created == create_task(tasks, task_id, a.user, task_name, time, status)
           created_task == get_task_by_id(created, task_id)
           base == [NoResp EXCEPT !.ep = "POST /task", !.auth = authorization,
                       !.user = a.user,
                       !.req = [taskName |-> task_name, time |-> time,
                                status |-> raw_status]]
       IN  /\ a.status = 200
           /\ IF status \notin valid_statuses
              THEN /\ resp' = [base EXCEPT !.status = 422,
                                           !.detail = "Status must be one of"]
                   /\ UNCHANGED <<tasks, nextTaskId, steps>>
              ELSE /\ steps < MaxSteps
                   /\ steps' = steps + 1
                   /\ tasks' = created
                   /\ nextTaskId' = nextTaskId + 1
                   /\ resp' =
                        IF created_task = NoRow
                           \/ ~model_validates(TaskResponse, task_kwargs)
                        THEN [base EXCEPT !.status = 500,
                                          !.detail = "Failed to create task"]
                        ELSE [base EXCEPT !.status = 200, !.task = created_task]
    /\ UNCHANGED <<members, sessions, nextUid, nextSid, now, phase, history>>
    /\ ledger' = LedgerAfter(ledger, resp')

\* PUT /task
UpdateTask(authorization, task_id, task_name, time, raw_status) ==
    /\ phase = "serving"
    /\ Idle
    /\ UNCHANGED conc
    /\ LET a == get_current_user(authorization, sessions, now)
           status == LowerStatus(raw_status)
           r == update_task_body(tasks, a.user, task_id, task_name, time, status)
           base == [NoResp EXCEPT !.ep = "PUT /task", !.auth = authorization,
                       !.user = a.user, !.taskId = task_id,
                       !.req = [taskName |-> task_name, time |-> time,
                                status |-> raw_status]]
       IN  /\ a.status = 200
           /\ IF status \notin valid_statuses
              THEN /\ resp' = [base EXCEPT !.status = 422,
                                           !.detail = "Status must be one of"]
                   /\ UNCHANGED <<tasks, steps>>
              ELSE /\ tasks' = r.tasks
                   /\ IF r.tasks # tasks
                      THEN steps < MaxSteps /\ steps' = steps + 1
                      ELSE steps' = steps
                   /\ resp' = [base EXCEPT !.status = r.status,
                                           !.detail = r.detail, !.task = r.task]
    /\ UNCHANGED <<members, sessions, nextTaskId, nextUid, nextSid, now,
                   phase, history>>
    /\ ledger' = LedgerAfter(ledger, resp')

\* DELETE /task/{task_id}
DeleteTask(authorization, task_id) ==
    /\ phase = "serving"
    /\ Idle
    /\ UNCHANGED conc
    /\ LET a == get_current_user(authorization, sessions, now)
           r == delete_task_body(tasks, a.user, task_id)
           base == [NoResp EXCEPT !.ep = "DELETE /task", !.auth = authorization,
                       !.user = a.user, !.taskId = task_id]
       IN  /\ a.status = 200
           /\ tasks' = r.tasks
           /\ IF r.tasks # tasks
              THEN steps < MaxSteps /\ steps' = steps + 1
              ELSE steps' = steps
           /\ resp' = [base EXCEPT !.status = r.status, !.detail = r.detail]
    /\ UNCHANGED <<members, sessions, nextTaskId, nextUid, nextSid, now,
                   phase, history>>
    /\ ledger' = LedgerAfter(ledger, resp')

\* GET /tasks
GetAllTasks(authorization) ==
    /\ phase = "serving"
    /\ Idle
    /\ UNCHANGED <<ledger, conc>>
    /\ LET a == get_current_user(authorization, sessions, now)
           base == [NoResp EXCEPT !.ep = "GET /tasks", !.auth = authorization,
                       !.user = a.user]
       IN  /\ a.status = 200
           /\ \E task_list \in get_all_tasks(tasks) :
                  resp' = [base EXCEPT !.status = 200, !.list = task_list]
    /\ UNCHANGED <<db, nextUid, nextSid, now, steps, phase, history>>

\* get_user_tasks without the comparison of user_id with the caller
GetUserTasks_any_user(authorization, user_id) ==
    /\ phase = "serving"
    /\ Idle
    /\ UNCHANGED <<ledger, conc>>
    /\ LET a == get_current_user(authorization, sessions, now)
           base == [NoResp EXCEPT !.ep = "GET /tasks/user", !.auth = authorization,
                       !.user = a.user, !.pathUser = user_id]
       IN  /\ a.status = 200
           /\ \E task_list \in get_tasks_by_user(tasks, user_id) :
                  resp' = [base EXCEPT !.status = 200, !.list = task_list]
    /\ UNCHANGED <<db, nextUid, nextSid, now, steps, phase, history>>

\* GET /tasks/user/{user_id}
GetUserTasks(authorization, user_id) ==
    /\ phase = "serving"
    /\ Idle
    /\ UNCHANGED <<ledger, conc>>
    /\ LET a == get_current_user(authorization, sessions, now)
           base == [NoResp EXCEPT !.ep = "GET /tasks/user", !.auth = authorization,
                       !.user = a.user, !.pathUser = user_id]
       IN  /\ a.status = 200
           /\ IF user_id # a.user
              THEN resp' = [base EXCEPT !.status = 403,
                               !.detail = "You can only access your own tasks"]
              ELSE \E task_list \in get_tasks_by_user(tasks, user_id) :
                       resp' = [base EXCEPT !.status = 200, !.list = task_list]
    /\ UNCHANGED <<db, nextUid, nextSid, now, steps, phase, history>>

----------------------------------------------------------------------------
(* Specification *)

\* task IDs a request may name: every ID assigned so far, and the next one
TaskIds == 1..nextTaskId

\* user IDs a request path may name: every ID assigned so far, and the next one
PathUserIds == 1..nextUid

\* a request is taken when the process serves and no exchange is open
Serving == phase = "serving" /\ Idle

Next ==
    \/ Respond
    \/ Lifespan
    \/ Shutdown
    \/ Tick
    \/ Serving /\ \E e \in RawEmails, p \in RawPasswords : Register(e, p)
    \/ Serving /\ \E e \in RawEmails, p \in RawPasswords : Login(e, p)
    \/ Serving /\ \E t \in ClientTokens : Logout(t)
    \/ Serving /\ \E t \in ClientTokens : ValidateSession(t)
    \/ Serving /\ \E ep \in BearerEndpoints, h \in Headers :
                      RejectUnauthenticated(ep, h)
    \/ Serving /\ \E h \in Headers, n \in TaskNames, tm \in TaskTimes,
                      st \in RawStatuses : CreateTask(h, n, tm, st)
    \/ Serving /\ \E h \in Headers, id \in TaskIds, n \in TaskNames,
                      tm \in TaskTimes, st \in RawStatuses :
                      UpdateTask(h, id, n, tm, st)
    \/ Serving /\ \E h \in Headers, id \in TaskIds : DeleteTask(h, id)
    \/ Serving /\ \E h \in Headers : GetAllTasks(h)
    \/ Serving /\ \E h \in Headers, u \in PathUserIds : GetUserTasks(h, u)

Spec == Init /\ [][Next]_vars

----------------------------------------------------------------------------
(* Registration with identifiers that may repeat.  uuid4 draws its value at *)
(* random and add_new_member keeps only the first 30 of its 36 characters:  *)
(* the value may be one drawn before.                                       *)

\* the values str(uuid.uuid4())[:30] may take: each one taken before, and a
\* new one
Uuids == 1..nextUid

NextUuid ==
    \/ Respond
    \/ Lifespan
    \/ Serving /\ \E e \in RawEmails, p \in RawPasswords, u \in Uuids :
                      register_user(e, p, u)

SpecUuid == Init /\ [][NextUuid]_vars

\* the same service when uuid4 may repeat a session ID: a login draws any
\* value up to the next unused one
SessionIds == 1..nextSid

NextSessionIds ==
    \/ Respond
    \/ Lifespan
    \/ Serving /\ \E e \in RawEmails, p \in RawPasswords : Register(e, p)
    \/ Serving /\ \E e \in RawEmails, p \in RawPasswords, sid \in SessionIds :
                      login_user(e, p, sid)

SpecSessionIds == Init /\ [][NextSessionIds]_vars

----------------------------------------------------------------------------
(* Concurrent serving.  Several requests are in flight at once, each with   *)
(* its own SQLite connection (get_db opens one per request), and each       *)
(* handler advances one storage statement at a time.  SQLite gives the      *)
(* connections its transaction semantics: the first write statement of a    *)
(* connection takes the database's write lock and opens a transaction, its  *)
(* changes are private until commit, commit publishes them at once and      *)
(* releases the lock, and a connection that needs the lock while another    *)
(* holds it waits (sqlite3.connect's default timeout; the timeout running   *)
(* out is a storage failure and is not modelled).  Reads see the committed  *)
(* tables.  The handlers are coroutines on one event loop (uvicorn.run) and *)
(* hold no await, so the loop runs one handler body at a time.              *)

\* the number of requests in flight at once
MaxInflight == 2

Slots == 1..MaxInflight

NoCall ==
    [op |-> "none", pc |-> "idle", auth |-> EmptyStr, email |-> "", password |-> "",
     taskId |-> NoTask, req |-> NoReq, user |-> NoUser, sid |-> 0,
     token |-> EmptyStr, pending |-> {}, rowcount |-> 0, status |-> 0,
     overlap |-> FALSE]    \* history: it arrived while another was being handled

\* the program counters a request holds only after its body has started, or
\* after get_current_user has run: the dependency is awaited and the body is
\* called by the same coroutine with no suspension between the two
InBody(c) ==
    c.pc \in {"DELETE", "INSERT", "commit", "write", "reselect", "insert", "remove",
              "select"}

\* a loop that could switch to another request between two statements of a
\* handler, as it would if the handlers were run in worker threads
may_run_between_statements(inf, s) == TRUE

\* the event loop runs one coroutine at a time and a handler body holds no
\* await: nothing else runs on the loop while a body has started and is not
\* finished
may_run(inf, s) == \A o \in (DOMAIN inf) \ {s} : ~InBody(inf[o])

\* create_session's DELETE removing nothing
create_session_DELETE_nothing(sess, user_id) == sess

\* create_session: DELETE FROM sessions WHERE userId = ?
create_session_DELETE(sess, user_id) == {r \in sess : r.userId # user_id}

\* create_session: INSERT INTO sessions ...; sessionId is the PRIMARY KEY and
\* sessionToken is UNIQUE
create_session_INSERT(sess, row) ==
    IF \E r \in sess : r.sessionId = row.sessionId
                       \/ r.sessionToken = row.sessionToken
    THEN [ok |-> FALSE, sessions |-> sess]
    ELSE [ok |-> TRUE, sessions |-> sess \cup {row}]

\* the databases the concurrent requests start from: two registered users,
\* each with or without a session, and their tasks
Member1 == [userId |-> 1, email |-> "a@x.com", password |-> "secret1"]
Member2 == [userId |-> 2, email |-> "b@x.com", password |-> "secret2"]
Task1 == [taskId |-> 1, userId |-> 1, taskName |-> "n1", time |-> 1, status |-> "pending"]
Task2 == [taskId |-> 2, userId |-> 2, taskName |-> "n1", time |-> 1, status |-> "pending"]

InitConc ==
    /\ members = {Member1, Member2}
    /\ registered = {[email |-> "a@x.com", password |-> "secret1", userId |-> 1],
                     [email |-> "b@x.com", password |-> " secret2 ", userId |-> 2]}
    /\ sessions \in SUBSET {session_row(1, 1, 0), session_row(2, 2, 0)}
    /\ issued = {session_row(1, 1, 0).sessionToken, session_row(2, 2, 0).sessionToken}
    /\ revoked = issued \ {r.sessionToken : r \in sessions}
    /\ superseded = {}
    /\ tasks \in {{}, {Task1}, {Task1, Task2}}
    /\ ledger = tasks
    /\ tasks0 = tasks
    /\ nextTaskId = 3
    /\ nextUid = 3
    /\ nextSid = 3
    /\ now = 0
    /\ steps = 0
    /\ phase = "serving"
    /\ resp = NoResp
    /\ inflight = [s \in Slots |-> NoCall]
    /\ wlock = 0

\* variables no concurrent step changes
ConcFrame == <<members, nextUid, now, steps, phase, resp, registered, ledger,
               tasks0>>

\* a slot takes a request when the slots before it are taken
Free(s) ==
    /\ inflight[s].op = "none"
    /\ \A o \in Slots : o < s => inflight[o].op # "none"
    /\ may_run(inflight, s)

\* another slot holds a request that is not answered yet
OthersInProgress(s) ==
    \E o \in Slots \ {s} : inflight[o].op # "none" /\ inflight[o].pc # "done"

\* POST /login arrives
AcceptLogin(s, e, p) ==
    /\ Free(s)
    /\ inflight' = [inflight EXCEPT ![s] =
           [NoCall EXCEPT !.op = "login", !.pc = "getUser", !.email = e,
                          !.password = p, !.overlap = OthersInProgress(s)]]
    /\ UNCHANGED <<ConcFrame, nextTaskId, revoked, sessions, tasks, nextSid, issued, superseded, wlock>>

\* PUT /task arrives
AcceptUpdate(s, authorization, task_id, time) ==
    /\ Free(s)
    /\ inflight' = [inflight EXCEPT ![s] =
           [NoCall EXCEPT !.op = "update", !.pc = "auth", !.auth = authorization,
                          !.taskId = task_id,
                          !.req = [taskName |-> "n1", time |-> time,
                                   status |-> "PENDING"],
                          !.overlap = OthersInProgress(s)]]
    /\ UNCHANGED <<ConcFrame, nextTaskId, revoked, sessions, tasks, nextSid, issued, superseded, wlock>>

\* DELETE /task/{task_id} arrives
AcceptDelete(s, authorization, task_id) ==
    /\ Free(s)
    /\ inflight' = [inflight EXCEPT ![s] =
           [NoCall EXCEPT !.op = "delete", !.pc = "auth", !.auth = authorization,
                          !.taskId = task_id, !.overlap = OthersInProgress(s)]]
    /\ UNCHANGED <<ConcFrame, nextTaskId, revoked, sessions, tasks, nextSid, issued, superseded, wlock>>

\* POST /task arrives
AcceptCreate(s, authorization) ==
    /\ Free(s)
    /\ inflight' = [inflight EXCEPT ![s] =
           [NoCall EXCEPT !.op = "create", !.pc = "auth", !.auth = authorization,
                          !.req = [taskName |-> "n1", time |-> 1,
                                   status |-> "PENDING"],
                          !.overlap = OthersInProgress(s)]]
    /\ UNCHANGED <<ConcFrame, nextTaskId, revoked, sessions, tasks, nextSid, issued,
                   superseded, wlock>>

\* POST /logout arrives
AcceptLogout(s, session_token) ==
    /\ Free(s)
    /\ inflight' = [inflight EXCEPT ![s] =
           [NoCall EXCEPT !.op = "logout", !.pc = "validate",
                          !.auth = session_token,
                          !.overlap = OthersInProgress(s)]]
    /\ UNCHANGED <<ConcFrame, nextTaskId, revoked, sessions, tasks, nextSid, issued,
                   superseded, wlock>>

\* the dependency get_current_user of a task request
Authenticate(s) ==
    /\ inflight[s].pc = "auth"
    /\ may_run(inflight, s)
    /\ LET a == get_current_user(inflight[s].auth, sessions, now)
       IN  inflight' = [inflight EXCEPT ![s] =
               IF a.status = 200
               THEN [@ EXCEPT !.pc = IF inflight[s].op = "create"
                                     THEN "insert" ELSE "select",
                              !.user = a.user]
               ELSE [@ EXCEPT !.pc = "done", !.status = a.status]]
    /\ UNCHANGED <<ConcFrame, nextTaskId, revoked, sessions, tasks, nextSid, issued, superseded, wlock>>

\* login_user: getUser, then create_session up to its first statement (the
\* session ID and the token are made before the DELETE)
LoginGetUser(s) ==
    /\ inflight[s].pc = "getUser"
    /\ may_run(inflight, s)
    /\ LET c == inflight[s]
           user_id == getUser(members, NormEmail(c.email), NormPassword(c.password))
       IN  IF user_id = NoUser
           THEN /\ inflight' = [inflight EXCEPT ![s] =
                                    [@ EXCEPT !.pc = "done", !.status = 401]]
                /\ UNCHANGED nextSid
           ELSE /\ inflight' = [inflight EXCEPT ![s] =
                       [@ EXCEPT !.pc = "DELETE", !.user = user_id, !.sid = nextSid,
                           !.token = session_row(user_id, nextSid, now).sessionToken]]
                /\ nextSid' = nextSid + 1
    /\ UNCHANGED <<ConcFrame, nextTaskId, revoked, sessions, tasks, issued, superseded, wlock>>

\* create_session: the DELETE takes the write lock and opens the transaction
SessionDelete(s) ==
    /\ inflight[s].pc = "DELETE"
    /\ may_run(inflight, s)
    /\ wlock = 0
    /\ wlock' = s
    /\ inflight' = [inflight EXCEPT ![s] =
           [@ EXCEPT !.pc = "INSERT",
                     !.pending = create_session_DELETE(sessions, inflight[s].user)]]
    /\ UNCHANGED <<ConcFrame, nextTaskId, revoked, sessions, tasks, nextSid, issued, superseded>>

\* create_session: the INSERT, inside the transaction; a violated constraint
\* raises, the handler answers 500 and the connection is closed uncommitted
SessionInsert(s) ==
    /\ inflight[s].pc = "INSERT"
    /\ may_run(inflight, s)
    /\ LET c == inflight[s]
           i == create_session_INSERT(c.pending, session_row(c.user, c.sid, now))
       IN  IF i.ok
           THEN /\ inflight' = [inflight EXCEPT ![s] =
                                    [@ EXCEPT !.pc = "commit", !.pending = i.sessions]]
                /\ UNCHANGED wlock
           ELSE /\ inflight' = [inflight EXCEPT ![s] =
                                    [@ EXCEPT !.pc = "done", !.pending = {},
                                              !.status = 500]]
                /\ wlock' = 0
    /\ UNCHANGED <<ConcFrame, nextTaskId, revoked, sessions, tasks, nextSid, issued, superseded>>

\* create_session: commit, and login_user's response
SessionCommit(s) ==
    /\ inflight[s].pc = "commit"
    /\ inflight[s].op = "login"
    /\ may_run(inflight, s)
    /\ sessions' = inflight[s].pending
    /\ wlock' = 0
    /\ issued' = issued \cup {inflight[s].token}
    /\ superseded' = superseded \cup {t \in issued : t[1].user_id = inflight[s].user}
    /\ inflight' = [inflight EXCEPT ![s] =
           [@ EXCEPT !.pc = "done", !.pending = {},
                     !.status = IF model_validates(UserLoginResponse, login_user_kwargs)
                                THEN 200 ELSE 500]]
    /\ UNCHANGED <<ConcFrame, nextTaskId, revoked, tasks, nextSid>>

\* logout_user: validate_session
LogoutValidate(s) ==
    /\ inflight[s].pc = "validate"
    /\ may_run(inflight, s)
    /\ LET user_id == validate_session(sessions, inflight[s].auth, now)
       IN  inflight' = [inflight EXCEPT ![s] =
               IF user_id = NoUser
               THEN [@ EXCEPT !.pc = "done", !.status = 401]
               ELSE [@ EXCEPT !.pc = "remove", !.user = user_id]]
    /\ UNCHANGED <<ConcFrame, nextTaskId, revoked, sessions, tasks, nextSid, issued,
                   superseded, wlock>>

\* delete_session: the DELETE takes the write lock and opens the transaction
LogoutDelete(s) ==
    /\ inflight[s].pc = "remove"
    /\ may_run(inflight, s)
    /\ wlock = 0
    /\ wlock' = s
    /\ inflight' = [inflight EXCEPT ![s] =
           [@ EXCEPT !.pc = "commit",
                     !.pending = delete_session(sessions, inflight[s].user).sessions]]
    /\ UNCHANGED <<ConcFrame, nextTaskId, revoked, sessions, tasks, nextSid, issued,
                   superseded>>

\* delete_session: commit, and logout_user's response (the value
\* delete_session returns is not looked at)
LogoutCommit(s) ==
    /\ inflight[s].pc = "commit"
    /\ inflight[s].op = "logout"
    /\ may_run(inflight, s)
    /\ sessions' = inflight[s].pending
    /\ wlock' = 0
    /\ revoked' = revoked \cup {r.sessionToken : r \in sessions \ inflight[s].pending}
    /\ inflight' = [inflight EXCEPT ![s] =
           [@ EXCEPT !.pc = "done", !.pending = {}, !.status = 200]]
    /\ UNCHANGED <<ConcFrame, nextTaskId, tasks, nextSid, issued, superseded>>

\* the INSERT into a tasks table declared without AUTOINCREMENT: the row gets
\* the largest stored ID plus one
TaskInsert_largest_rowid_plus_one(s) ==
    /\ inflight[s].pc = "insert"
    /\ may_run(inflight, s)
    /\ wlock = 0
    /\ wlock' = s
    /\ LET c == inflight[s]
           rowid == IF tasks = {} THEN 1
                    ELSE 1 + CHOOSE n \in {t.taskId : t \in tasks} :
                                 \A t \in tasks : t.taskId <= n
       IN  inflight' = [inflight EXCEPT ![s] =
               [@ EXCEPT !.pc = "commit", !.taskId = rowid, !.rowcount = 1,
                         !.pending = create_task(tasks, rowid, c.user,
                                                 c.req.taskName, c.req.time,
                                                 LowerStatus(c.req.status))]]
    /\ nextTaskId' = nextTaskId + 1
    /\ UNCHANGED <<ConcFrame, revoked, sessions, tasks, nextSid, issued, superseded>>

\* TaskModel.create_task: the INSERT; AUTOINCREMENT gives the row the next ID
\* of the sequence
TaskInsert(s) ==
    /\ inflight[s].pc = "insert"
    /\ may_run(inflight, s)
    /\ wlock = 0
    /\ wlock' = s
    /\ LET c == inflight[s]
       IN  inflight' = [inflight EXCEPT ![s] =
               [@ EXCEPT !.pc = "commit", !.taskId = nextTaskId, !.rowcount = 1,
                         !.pending = create_task(tasks, nextTaskId, c.user,
                                                 c.req.taskName, c.req.time,
                                                 LowerStatus(c.req.status))]]
    /\ nextTaskId' = nextTaskId + 1
    /\ UNCHANGED <<ConcFrame, revoked, sessions, tasks, nextSid, issued, superseded>>

\* update_task / delete_task going on to the write without comparing the
\* stored owner with the caller
TaskSelect_without_owner_check(s) ==
    /\ inflight[s].pc = "select"
    /\ may_run(inflight, s)
    /\ LET c == inflight[s]
           existing_task == get_task_by_id(tasks, c.taskId)
       IN  inflight' = [inflight EXCEPT ![s] =
               IF existing_task = NoRow
               THEN [@ EXCEPT !.pc = "done", !.status = 404]
               ELSE [@ EXCEPT !.pc = "write"]]
    /\ UNCHANGED <<ConcFrame, nextTaskId, revoked, sessions, tasks, nextSid, issued,
                   superseded, wlock>>

\* update_task / delete_task: get_task_by_id and the ownership comparison
TaskSelect(s) ==
    /\ inflight[s].pc = "select"
    /\ may_run(inflight, s)
    /\ LET c == inflight[s]
           existing_task == get_task_by_id(tasks, c.taskId)
       IN  inflight' = [inflight EXCEPT ![s] =
               IF existing_task = NoRow
               THEN [@ EXCEPT !.pc = "done", !.status = 404]
               ELSE IF existing_task.userId # c.user
               THEN [@ EXCEPT !.pc = "done", !.status = 403]
               ELSE [@ EXCEPT !.pc = "write"]]
    /\ UNCHANGED <<ConcFrame, nextTaskId, revoked, sessions, tasks, nextSid, issued, superseded, wlock>>

\* TaskModel.update_task / delete_task: the UPDATE or DELETE statement
TaskWrite(s) ==
    /\ inflight[s].pc = "write"
    /\ may_run(inflight, s)
    /\ wlock = 0
    /\ wlock' = s
    /\ LET c == inflight[s]
           w == IF c.op = "update"
                THEN update_task(tasks, c.taskId, c.user, c.req.taskName, c.req.time,
                                 LowerStatus(c.req.status))
                ELSE delete_task(tasks, c.taskId)
       IN  inflight' = [inflight EXCEPT ![s] =
               [@ EXCEPT !.pc = "commit", !.pending = w.tasks,
                         !.rowcount = IF w.success THEN 1 ELSE 0]]
    /\ UNCHANGED <<ConcFrame, nextTaskId, revoked, sessions, tasks, nextSid, issued, superseded>>

\* TaskModel.create_task / update_task / delete_task: commit; rowcount 0
\* makes update_task and delete_task return False and the handler answer 500
TaskCommit(s) ==
    /\ inflight[s].pc = "commit"
    /\ inflight[s].op \in {"create", "update", "delete"}
    /\ may_run(inflight, s)
    /\ tasks' = inflight[s].pending
    /\ wlock' = 0
    /\ inflight' = [inflight EXCEPT ![s] =
           IF @.rowcount = 0
           THEN [@ EXCEPT !.pc = "done", !.pending = {}, !.status = 500]
           ELSE IF @.op = "delete"
           THEN [@ EXCEPT !.pc = "done", !.pending = {}, !.status = 200]
           ELSE [@ EXCEPT !.pc = "reselect", !.pending = {}]]
    /\ UNCHANGED <<ConcFrame, nextTaskId, revoked, sessions, nextSid, issued, superseded>>

\* create_task, update_task: the row is read back for the response; reading
\* None makes the handler answer 500
TaskReselect(s) ==
    /\ inflight[s].pc = "reselect"
    /\ may_run(inflight, s)
    /\ LET updated_task == get_task_by_id(tasks, inflight[s].taskId)
       IN  inflight' = [inflight EXCEPT ![s] =
               [@ EXCEPT !.pc = "done",
                         !.status = IF updated_task = NoRow
                                       \/ ~model_validates(TaskResponse, task_kwargs)
                                    THEN 500 ELSE 200]]
    /\ UNCHANGED <<ConcFrame, nextTaskId, revoked, sessions, tasks, nextSid, issued, superseded, wlock>>

\* what the concurrent clients send
ConcEmails == {"a@x.com", "b@x.com"}
ConcHeaders == {BearerPrefix \o t : t \in issued}
ConcTaskIds == {1, 2}

NextConc ==
    \/ \E s \in Slots, e \in ConcEmails, p \in RawPasswords : AcceptLogin(s, e, p)
    \/ \E s \in Slots, h \in ConcHeaders, id \in ConcTaskIds : AcceptUpdate(s, h, id, 2)
    \/ \E s \in Slots, h \in ConcHeaders, id \in ConcTaskIds : AcceptDelete(s, h, id)
    \/ \E s \in Slots : Authenticate(s)
    \/ \E s \in Slots : LoginGetUser(s)
    \/ \E s \in Slots : SessionDelete(s)
    \/ \E s \in Slots : SessionInsert(s)
    \/ \E s \in Slots : SessionCommit(s)
    \/ \E s \in Slots : TaskSelect(s)
    \/ \E s \in Slots : TaskWrite(s)
    \/ \E s \in Slots : TaskCommit(s)
    \/ \E s \in Slots : TaskReselect(s)

SpecConc == InitConc /\ [][NextConc]_vars

\* logins and logouts served concurrently.  The tokens the clients present
\* are those they hold when the requests arrive: login_user answers 500 (its
\* response model does not validate) and hands no client the token it stored
ConcTokens == {session_row(1, 1, 0).sessionToken, session_row(2, 2, 0).sessionToken}

NextConcSessions ==
    \/ \E s \in Slots, e \in ConcEmails, p \in RawPasswords : AcceptLogin(s, e, p)
    \/ \E s \in Slots, t \in ConcTokens : AcceptLogout(s, t)
    \/ \E s \in Slots : LoginGetUser(s)
    \/ \E s \in Slots : SessionDelete(s)
    \/ \E s \in Slots : SessionInsert(s)
    \/ \E s \in Slots : SessionCommit(s)
    \/ \E s \in Slots : LogoutValidate(s)
    \/ \E s \in Slots : LogoutDelete(s)
    \/ \E s \in Slots : LogoutCommit(s)

SpecConcSessions == InitConc /\ [][NextConcSessions]_vars

\* creations, updates and deletions of tasks served concurrently; an update
\* or deletion may name the task a creation in flight is about to store
NewTaskIds == {1, 2, 3}

NextConcTasks ==
    \/ \E s \in Slots, h \in ConcHeaders : AcceptCreate(s, h)
    \/ \E s \in Slots, h \in ConcHeaders, id \in NewTaskIds : AcceptUpdate(s, h, id, 2)
    \/ \E s \in Slots, h \in ConcHeaders, id \in NewTaskIds : AcceptDelete(s, h, id)
    \/ \E s \in Slots : Authenticate(s)
    \/ \E s \in Slots : TaskInsert(s)
    \/ \E s \in Slots : TaskSelect(s)
    \/ \E s \in Slots : TaskWrite(s)
    \/ \E s \in Slots : TaskCommit(s)
    \/ \E s \in Slots : TaskReselect(s)

SpecConcTasks == InitConc /\ [][NextConcTasks]_vars

\* logouts and task requests in flight together
NextConcLogout ==
    \/ \E s \in Slots, t \in ConcTokens : AcceptLogout(s, t)
    \/ \E s \in Slots, h \in ConcHeaders : AcceptCreate(s, h)
    \/ \E s \in Slots, h \in ConcHeaders, id \in ConcTaskIds : AcceptUpdate(s, h, id, 2)
    \/ \E s \in Slots, h \in ConcHeaders, id \in ConcTaskIds : AcceptDelete(s, h, id)
    \/ \E s \in Slots : Authenticate(s)
    \/ \E s \in Slots : LogoutValidate(s)
    \/ \E s \in Slots : LogoutDelete(s)
    \/ \E s \in Slots : LogoutCommit(s)
    \/ \E s \in Slots : TaskInsert(s)
    \/ \E s \in Slots : TaskSelect(s)
    \/ \E s \in Slots : TaskWrite(s)
    \/ \E s \in Slots : TaskCommit(s)
    \/ \E s \in Slots : TaskReselect(s)

SpecConcLogout == InitConc /\ [][NextConcLogout]_vars


----------------------------------------------------------------------------
(* Properties *)

\* the token an Authorization header carries once "Bearer " is removed
TokenOf(authorization) == replace_with_empty(authorization, BearerPrefix)

\* this step handled a request of one of the endpoints eps
Handled(eps) == resp = NoResp /\ resp' # NoResp /\ resp'.ep \in eps

\* C1: in every reachable state the sessions table holds at most one row per
\* user ID
C1_OneSessionPerUser ==
    \A r1 \in sessions : \A r2 \in sessions : r1.userId = r2.userId => r1 = r2

\* a user whose earlier session was replaced holds a session
C1_Witness ==
    \E t \in superseded : \E r \in sessions : r.userId = t[1].user_id

\* C2: once create_session(u) has completed, no token issued to u before it
\* validates, in that state or any later one, and right after it exactly one
\* row of u is stored and that row is valid
C2_OldTokensStayInvalid ==
    /\ [](\A t \in superseded : validate_session(sessions, t, now) = NoUser)
    /\ [][issued' # issued =>
            LET new == CHOOSE t \in issued' : t \notin issued
                u == new[1].user_id
            IN  /\ \A t \in issued :
                       t[1].user_id = u =>
                           validate_session(sessions', t, now') = NoUser
                /\ Cardinality({r \in sessions' : r.userId = u}) = 1
                /\ \A r \in sessions' :
                       r.userId = u =>
                           /\ r.sessionToken = new
                           /\ validate_session(sessions', new, now') = u]_vars

\* a replaced token whose own expiry has not passed, its user holding a session
C2_Witness ==
    \E t \in superseded :
        /\ t[1].exp > now
        /\ \E r \in sessions : r.userId = t[1].user_id /\ r.expiresAt > now

\* strings validate_session is asked about: client tokens, the empty string,
\* and a token with the scheme still in front
C3_Strings ==
    ClientTokens \cup {EmptyStr} \cup {BearerPrefix \o t : t \in ClientTokens}

\* C3: validate_session returns user u exactly when a stored row holds that
\* exact token, belongs to u and expires strictly after the validation time;
\* otherwise it returns the invalid result, and GET /session/validate answers
\* 200 with valid=false rather than an error
C3_ValidateExactly ==
    /\ \A tok \in C3_Strings :
           LET got == validate_session(sessions, tok, now)
           IN  /\ \A u \in 1..nextUid :
                      got = u <=> \E r \in sessions : /\ r.sessionToken = tok
                                                     /\ r.userId = u
                                                     /\ r.expiresAt > now
               /\ got = NoUser <=> ~\E r \in sessions : /\ r.sessionToken = tok
                                                        /\ r.expiresAt > now
    /\ resp.ep = "GET /session/validate" =>
           /\ resp.status = 200
           /\ resp.valid <=> \E r \in sessions : /\ r.sessionToken = resp.auth
                                                 /\ r.expiresAt > now
           /\ resp.valid => \E r \in sessions : /\ r.sessionToken = resp.auth
                                                /\ r.userId = resp.bodyUser
           /\ ~resp.valid => resp.bodyUser = NoUser

\* a stored row whose expiry equals the validation time was reported invalid
C3_Witness ==
    /\ resp.ep = "GET /session/validate"
    /\ ~resp.valid
    /\ \E r \in sessions : r.sessionToken = resp.auth /\ r.expiresAt = now

\* C4: once delete_session has removed a session, its token never validates
\* again and every bearer-protected endpoint answers it with 401, whatever
\* the expiry embedded in the token
C4_RevokedStaysRejected ==
    /\ \A t \in revoked :
           /\ validate_session(sessions, t, now) = NoUser
           /\ get_current_user(BearerPrefix \o t, sessions, now).status = 401
    /\ (resp.ep \in BearerEndpoints /\ TokenOf(resp.auth) \in revoked) =>
           resp.status = 401

\* a bearer request with a revoked token, its embedded expiry still ahead,
\* was answered 401
C4_Witness ==
    /\ resp.ep \in BearerEndpoints
    /\ resp.status = 401
    /\ \E t \in revoked : resp.auth = BearerPrefix \o t /\ t[1].exp > now

\* C5: a bearer-protected request whose Authorization header is absent, does
\* not start with "Bearer ", or carries a token validate_session rejects is
\* answered 401, no handler result is produced and no row of any table changes
C5_UnauthenticatedFailsClosed ==
    [][Handled(BearerEndpoints) =>
        LET h == resp'.auth
            bad == \/ h = EmptyStr
                   \/ ~startswith(h, BearerPrefix)
                   \/ validate_session(sessions, TokenOf(h), now) = NoUser
        IN  bad => /\ resp'.status = 401
                   /\ resp'.user = NoUser
                   /\ resp'.task = NoRow
                   /\ resp'.list = << >>
                   /\ UNCHANGED <<members, sessions, tasks, nextTaskId>>]_vars

\* a valid token sent without the scheme was answered 401 while tasks exist
C5_Witness ==
    /\ resp.ep \in BearerEndpoints
    /\ resp.status = 401
    /\ tasks # {}
    /\ \E r \in sessions : r.expiresAt > now /\ resp.auth = r.sessionToken

\* the row PUT /task stores for the request recorded in rsp
UpdatedRow(rsp) ==
    [taskId |-> rsp.taskId, userId |-> rsp.user, taskName |-> rsp.req.taskName,
     time |-> rsp.req.time, status |-> LowerStatus(rsp.req.status)]

\* C6: PUT /task and DELETE /task/{taskId} with a valid session (and a body
\* that passes validation) answer 404 when no task has that ID, 403 when the
\* stored owner differs from the authenticated user, and otherwise 200 with
\* the update or delete applied to that row alone
C6_OwnershipOutcome ==
    [][(Handled({"PUT /task", "DELETE /task"}) /\ resp'.status \notin {401, 422}) =>
        LET u == validate_session(sessions, TokenOf(resp'.auth), now)
            existing == {r \in tasks : r.taskId = resp'.taskId}
        IN  /\ u # NoUser
            /\ resp'.user = u
            /\ existing = {} => resp'.status = 404 /\ tasks' = tasks
            /\ \A r \in existing :
                   /\ r.userId # u => resp'.status = 403 /\ tasks' = tasks
                   /\ r.userId = u =>
                          /\ resp'.status = 200
                          /\ tasks' = IF resp'.ep = "PUT /task"
                                      THEN (tasks \ {r}) \cup {UpdatedRow(resp')}
                                      ELSE tasks \ {r}]_vars

\* the owner's update was answered 200 and is stored, another user's task
\* standing beside it
C6_Witness ==
    /\ resp.ep = "PUT /task"
    /\ resp.status = 200
    /\ resp.task \in tasks
    /\ resp.task = UpdatedRow(resp)
    /\ \E r \in tasks : r.userId # resp.user

\* C7: a task row changes or disappears only in a PUT /task or DELETE /task
\* answered 200 for a session of that row's owner; an update or delete that
\* ends in 401, 403 or 404 leaves every task row as it was
C7_OnlyOwnerMutates ==
    [][/\ \A r \in tasks :
              r \notin tasks' =>
                  /\ Handled({"PUT /task", "DELETE /task"})
                  /\ resp'.status = 200
                  /\ resp'.taskId = r.taskId
                  /\ resp'.user = r.userId
                  /\ validate_session(sessions, TokenOf(resp'.auth), now) = r.userId
       /\ (resp'.ep \in {"PUT /task", "DELETE /task"}
           /\ resp'.status \in {401, 403, 404}) => tasks' = tasks]_vars

\* a delete by a user who is not the owner was answered 403, the row in place
C7_Witness ==
    /\ resp.ep = "DELETE /task"
    /\ resp.status = 403
    /\ \E r \in tasks : r.taskId = resp.taskId /\ r.userId # resp.user

\* C8: POST /register with valid fields and an email not yet registered
\* answers 201 with the new user ID and a session whose token validates to
\* that user
C8_RegisterAnswers201 ==
    [][(Handled({"POST /register"})
        /\ ~\E m \in members : m.email = NormEmail(resp'.email)) =>
            /\ resp'.status = 201
            /\ resp'.bodyUser \in {m.userId : m \in members'} \ {m.userId : m \in members}
            /\ validate_session(sessions', resp'.bodyToken, now') = resp'.bodyUser]_vars

\* C9: POST /login with a registered email and its credential answers 200
\* with that user's ID and a new session whose token validates to that user;
\* with an unknown email or a wrong credential it answers 401
C9_LoginAnswers200Or401 ==
    [][Handled({"POST /login"}) =>
        LET hit == {g \in registered :
                       /\ NormEmail(g.email) = NormEmail(resp'.email)
                       /\ NormPassword(g.password) = NormPassword(resp'.password)}
        IN  /\ hit = {} => resp'.status = 401
            /\ \A g \in hit :
                   /\ resp'.status = 200
                   /\ resp'.bodyUser = g.userId
                   /\ resp'.bodyToken \notin issued
                   /\ validate_session(sessions', resp'.bodyToken, now') = g.userId]_vars

\* C10: getUser with a registered email and the credential of that
\* registration returns the user ID assigned at that registration, in every
\* state; any other pair returns the invalid result, never another user's ID
C10_AuthenticateExactly ==
    /\ \A g \in registered :
           getUser(members, NormEmail(g.email), NormPassword(g.password)) = g.userId
    /\ \A e \in RawEmails : \A p \in RawPasswords :
           LET got == getUser(members, NormEmail(e), NormPassword(p))
           IN  got # NoUser =>
                   \E g \in registered :
                       /\ g.userId = got
                       /\ NormEmail(g.email) = NormEmail(e)
                       /\ NormPassword(g.password) = NormPassword(p)
    /\ \A g1 \in registered : \A g2 \in registered :
           g1.userId = g2.userId => g1 = g2

\* two users with different credentials are registered, and a login with one
\* user's email and the other's credential was refused
C10_Witness ==
    /\ resp.ep = "POST /login"
    /\ resp.status = 401
    /\ \E g1 \in registered : \E g2 \in registered :
           /\ g1.userId # g2.userId
           /\ g1.email = resp.email
           /\ g2.password = resp.password
           /\ NormPassword(g1.password) # NormPassword(g2.password)

\* C11: POST /register with an email that is already registered answers 409
\* and adds neither a member row nor a session row; in every reachable state
\* no two member rows share an email
C11_DuplicateEmailConflicts ==
    /\ [](\A m1 \in members : \A m2 \in members : m1.email = m2.email => m1 = m2)
    /\ [][(Handled({"POST /register"})
           /\ \E m \in members : m.email = NormEmail(resp'.email)) =>
               /\ resp'.status = 409
               /\ members' = members
               /\ sessions' = sessions
               /\ issued' = issued]_vars

\* a registration was refused with 409 for an email stored under another
\* spelling, the first registrant's session still in place
C11_Witness ==
    /\ resp.ep = "POST /register"
    /\ resp.status = 409
    /\ \E g \in registered :
           /\ g.email # resp.email
           /\ NormEmail(g.email) = NormEmail(resp.email)
           /\ \E r \in sessions : r.userId = g.userId

\* C14: the expiry sweep run at time t deletes exactly the session rows whose
\* expiry is at or before t, leaves every row validate_session accepts at t
\* untouched, and returns the number of rows it deleted
C14_CleanupDeletesExactlyExpired ==
    [][Handled({"startup"}) =>
        /\ sessions' = {r \in sessions : r.expiresAt > now}
        /\ sessions \ sessions' = {r \in sessions : r.expiresAt <= now}
        /\ resp'.count = Cardinality(sessions) - Cardinality(sessions')
        /\ \A r \in sessions :
               validate_session(sessions, r.sessionToken, now) # NoUser =>
                   /\ r \in sessions'
                   /\ validate_session(sessions', r.sessionToken, now') = r.userId]_vars

\* the sweep removed one row, a row whose expiry equals the time of the sweep,
\* and left a live row in place
C14_Witness ==
    /\ resp.ep = "startup"
    /\ resp.count = 1
    /\ \E t \in issued \ (superseded \cup revoked) :
           /\ t[1].exp = now
           /\ ~\E r \in sessions : r.sessionToken = t
    /\ \E r \in sessions : r.expiresAt > now

\* C15: a second expiry sweep right after a first one returns 0 and leaves
\* the session store unchanged
C15_CleanupTwiceIsIdle ==
    /\ LET first == cleanup_expired_sessions(sessions, now)
           second == cleanup_expired_sessions(first.sessions, now)
       IN  /\ second.deleted_count = 0
           /\ second.sessions = first.sessions
    /\ resp.ep = "startup" =>
           LET again == cleanup_expired_sessions(sessions, now)
           IN  /\ again.deleted_count = 0
               /\ again.sessions = sessions

\* the startup sweep has just removed a row and rows remain in the store
C15_Witness ==
    /\ resp.ep = "startup"
    /\ resp.count > 0
    /\ sessions # {}

\* C16: delete_session(u) removes every session row of u, returns true
\* exactly when such a row existed, and leaves the rows of all other users
\* unchanged
C16_DeleteSessionOnlyThatUser ==
    /\ [](\A u \in 1..nextUid :
             LET d == delete_session(sessions, u)
             IN  /\ d.sessions \subseteq sessions
                 /\ \A r \in d.sessions : r.userId # u
                 /\ \A r \in sessions : r.userId # u => r \in d.sessions
                 /\ d.deleted <=> Cardinality(d.sessions) < Cardinality(sessions))
    /\ [][(Handled({"POST /logout"}) /\ resp'.status = 200) =>
             /\ \E r \in sessions : r.userId = resp'.user
             /\ ~\E r \in sessions' : r.userId = resp'.user
             /\ \A r \in sessions : r.userId # resp'.user => r \in sessions'
             /\ sessions' \subseteq sessions]_vars

\* a logout removed the caller's session while another user's session stays
C16_Witness ==
    /\ resp.ep = "POST /logout"
    /\ resp.status = 200
    /\ ~\E r \in sessions : r.userId = resp.user
    /\ \E r \in sessions : r.userId # resp.user /\ r.expiresAt > now

\* C17: POST /logout with a currently valid token answers 200 and removes
\* that user's session, so the token no longer validates; with a token never
\* issued, revoked or expired it answers 401 and the session store is unchanged
C17_LogoutOutcome ==
    [][Handled({"POST /logout"}) =>
        LET tok == resp'.auth
            live == {r \in sessions : r.sessionToken = tok /\ r.expiresAt > now}
        IN  /\ live # {} =>
                /\ resp'.status = 200
                /\ \A r \in live : ~\E x \in sessions' : x.userId = r.userId
                /\ validate_session(sessions', tok, now') = NoUser
            /\ (\/ live = {}
                \/ tok \notin issued
                \/ tok \in revoked
                \/ tok[1].exp <= now) =>
                /\ resp'.status = 401
                /\ sessions' = sessions]_vars

\* a logout with an expired token whose row is still stored was answered 401
C17_Witness ==
    /\ resp.ep = "POST /logout"
    /\ resp.status = 401
    /\ \E r \in sessions : r.sessionToken = resp.auth /\ r.expiresAt <= now

\* C18: GET /session/validate answers 200 for every token, with valid=true
\* and the owning user ID when the session is valid and valid=false
\* otherwise, and changes no state
C18_ValidateEndpointNeverErrors ==
    [][Handled({"GET /session/validate"}) =>
        LET live == {r \in sessions :
                        r.sessionToken = resp'.auth /\ r.expiresAt > now}
        IN  /\ resp'.status = 200
            /\ resp'.valid <=> live # {}
            /\ \A r \in live : resp'.bodyUser = r.userId
            /\ live = {} => resp'.bodyUser = NoUser
            /\ UNCHANGED <<members, sessions, tasks, nextTaskId>>]_vars

\* a revoked token whose embedded expiry is still ahead was reported
\* valid=false with status 200
C18_Witness ==
    /\ resp.ep = "GET /session/validate"
    /\ resp.status = 200
    /\ ~resp.valid
    /\ resp.auth \in revoked
    /\ resp.auth[1].exp > now

\* C19: GET /tasks/user/{userId} with a valid session answers 403 whenever
\* userId differs from the authenticated user, and then returns no task data
C19_OtherUsersListForbidden ==
    [][Handled({"GET /tasks/user"}) =>
        LET a == get_current_user(resp'.auth, sessions, now)
        IN  (a.status = 200 /\ resp'.pathUser # a.user) =>
                /\ resp'.status = 403
                /\ resp'.list = << >>
                /\ resp'.task = NoRow]_vars

\* a user holding a valid session asked for the list of another user who has
\* tasks and was answered 403
C19_Witness ==
    /\ resp.ep = "GET /tasks/user"
    /\ resp.status = 403
    /\ resp.user # NoUser
    /\ \E r \in tasks : r.userId = resp.pathUser

\* the elements of a list
ListSet(q) == {q[i] : i \in 1..Len(q)}

\* C20: GET /tasks/user/{self} with the caller's valid token returns exactly
\* the tasks this user created and has not deleted, each with the values of
\* its latest update: none is missing, none is listed twice, and no other
\* user's task is included
C20_OwnListIsExact ==
    [][Handled({"GET /tasks/user"}) =>
        LET a == get_current_user(resp'.auth, sessions, now)
            mine == {r \in ledger : r.userId = a.user}
        IN  (a.status = 200 /\ resp'.pathUser = a.user) =>
                /\ resp'.status = 200
                /\ ListSet(resp'.list) = mine
                /\ Len(resp'.list) = Cardinality(mine)]_vars

\* a user listed their own tasks and got a non-empty list while another
\* user's task is stored
C20_Witness ==
    /\ resp.ep = "GET /tasks/user"
    /\ resp.status = 200
    /\ resp.list # << >>
    /\ \E r \in tasks : r.userId # resp.user

\* no request of the concurrent clients is still being handled
Quiescent == \A s \in Slots : inflight[s].pc \in {"idle", "done"}

\* the slots whose login stored a session for user u
LoginsOf(u) ==
    {s \in Slots : /\ inflight[s].op = "login"
                   /\ inflight[s].user = u
                   /\ inflight[s].token \in issued}

\* C12: when several logins of one user are served concurrently, every state
\* holds at most one session row of that user, and once the requests are
\* finished exactly one row of that user is stored and at most one of the
\* tokens issued to that user validates
C12_ConcurrentLoginsLeaveOneSession ==
    /\ \A u \in 1..nextUid : Cardinality({r \in sessions : r.userId = u}) <= 1
    /\ Quiescent =>
           \A u \in 1..nextUid :
               LoginsOf(u) # {} =>
                   /\ Cardinality({r \in sessions : r.userId = u}) = 1
                   /\ Cardinality({t \in issued :
                                      validate_session(sessions, t, now) = u}) <= 1
                   /\ Cardinality({s \in LoginsOf(u) :
                          validate_session(sessions, inflight[s].token, now) = u}) = 1

\* two logins of a user who held no session were in flight together and both
\* stored a session
C12_Witness ==
    /\ Quiescent
    /\ \E s1 \in Slots : \E s2 \in Slots :
           /\ s1 # s2
           /\ s1 \in LoginsOf(inflight[s2].user)
           /\ s2 \in LoginsOf(inflight[s1].user)
           /\ inflight[s1].token # inflight[s2].token
           /\ inflight[s2].overlap
           /\ \E t \in revoked : t[1].user_id = inflight[s1].user

\* the slots that hold a request
Taken == {s \in Slots : inflight[s].op # "none"}

\* the outcome of a task request handled in one piece on table tsk
HandledAlone(tsk, c) ==
    IF c.op = "update"
    THEN update_task_body(tsk, c.user, c.taskId, c.req.taskName, c.req.time,
                          LowerStatus(c.req.status))
    ELSE delete_task_body(tsk, c.user, c.taskId)

\* the final tasks table and the status of each request, for every serial
\* order of the requests in the slots todo, started on table tsk
RECURSIVE SerialRuns(_, _, _)
SerialRuns(tsk, todo, st) ==
    IF todo = {}
    THEN {<<tsk, st>>}
    ELSE UNION {LET r == HandledAlone(tsk, inflight[s])
                IN  SerialRuns(r.tasks, todo \ {s}, st @@ (s :> r.status)) :
                s \in todo}

\* every request in flight is an update or delete of one task, sent by its
\* owner with a valid session
OwnerRace ==
    /\ Cardinality(Taken) >= 2
    /\ \E t \in tasks0 :
           \A s \in Taken :
               /\ inflight[s].op \in {"update", "delete"}
               /\ inflight[s].taskId = t.taskId
               /\ inflight[s].user = t.userId

\* C13: when updates and deletes of one task by its owner are served
\* concurrently, each ends in 200 or 404, never in 500, and the final table
\* and the answers are those of some serial order of the requests
C13_TaskOperationsSerialize ==
    (Quiescent /\ OwnerRace) =>
        /\ \A s \in Taken : inflight[s].status \in {200, 404}
        /\ <<tasks, [s \in Taken |-> inflight[s].status]>>
               \in SerialRuns(tasks0, Taken, << >>)

\* an update and a delete of one task by its owner were in flight together:
\* the delete was answered 200 and the update 404
C13_Witness ==
    /\ Quiescent
    /\ OwnerRace
    /\ \E s1 \in Taken : \E s2 \in Taken :
           /\ inflight[s1].op = "update" /\ inflight[s1].status = 404
           /\ inflight[s2].op = "delete" /\ inflight[s2].status = 200
           /\ inflight[s2].overlap

\* the response a bearer-protected endpoint gives to a request it refuses for
\* its token: nothing but the status and the detail of get_current_user
Refusal(ep, authorization) ==
    [NoResp EXCEPT !.ep = ep, !.auth = authorization, !.status = 401,
                   !.detail = "Session expired or invalid"]

\* C21: the response of a bearer-protected endpoint to an expired token is
\* the response it gives to a token that never existed or was revoked: every
\* token ever stored that fails validation gets from get_current_user the
\* result a token that was never stored gets, and the response to such a
\* request holds the same status and body whether the token's row is stored
\* and expired, was removed, or never existed
C21_ExpiredIndistinguishable ==
    /\ [](\A t \in issued :
             validate_session(sessions, t, now) = NoUser =>
                 get_current_user(BearerPrefix \o t, sessions, now)
                     = get_current_user(BearerPrefix \o ForgedToken, sessions, now))
    /\ [][(/\ Handled(BearerEndpoints)
           /\ startswith(resp'.auth, BearerPrefix)
           /\ validate_session(sessions, TokenOf(resp'.auth), now) = NoUser) =>
               /\ resp' = Refusal(resp'.ep, resp'.auth)
               /\ UNCHANGED <<members, sessions, tasks, nextTaskId>>]_vars

\* a bearer request with an expired token whose row is still stored was
\* refused while a token that was never stored and a revoked token exist
C21_Witness ==
    /\ resp.ep \in BearerEndpoints
    /\ resp.status = 401
    /\ \E r \in sessions : /\ resp.auth = BearerPrefix \o r.sessionToken
                           /\ r.expiresAt <= now
    /\ ForgedToken \notin issued
    /\ revoked # {}

\* C22: POST /register answers 409 only when the email of the request is
\* already stored; a failure of the insert for any other reason, such as the
\* generated user ID colliding with a stored one, is answered 500
C22_ConflictOnlyForDuplicateEmail ==
    [][Handled({"POST /register"}) =>
        LET duplicate == \E m \in members : m.email = NormEmail(resp'.email)
        IN  /\ resp'.status = 409 => duplicate
            /\ (~duplicate /\ members' = members) => resp'.status = 500]_vars

\* C23: a session row appears only in a register or login (create_session)
\* and disappears only in a register or login that stores a new row for the
\* same user, in a logout of that user, or in the expiry sweep;
\* GET /session/validate and the task endpoints leave the sessions table as
\* it is, so an expired row stays stored, failing validation, until then
C23_SessionStoreFrame ==
    /\ [](\A r \in sessions :
             r.expiresAt <= now =>
                 validate_session(sessions, r.sessionToken, now) = NoUser)
    /\ [][/\ \A r \in sessions' \ sessions :
                 /\ Handled({"POST /register", "POST /login"})
                 /\ r.sessionToken \notin issued
                 /\ issued' = issued \cup {r.sessionToken}
          /\ \A r \in sessions \ sessions' :
                 \/ /\ Handled({"POST /register", "POST /login"})
                    /\ \E n \in sessions' \ sessions : n.userId = r.userId
                 \/ /\ Handled({"POST /logout"})
                    /\ resp'.status = 200
                    /\ resp'.user = r.userId
                 \/ /\ Handled({"startup"})
                    /\ r.expiresAt <= now
          /\ Handled(BearerEndpoints \cup {"GET /session/validate"}) =>
                 sessions' = sessions]_vars

\* a task endpoint served a user with a live session while the expired row
\* of another user, which validate_session refuses, is still stored
C23_Witness ==
    /\ resp.ep \in BearerEndpoints
    /\ resp.status = 200
    /\ \E r \in sessions : /\ r.expiresAt < now
                           /\ r.userId # resp.user
                           /\ validate_session(sessions, r.sessionToken, now) = NoUser

\* C24: right after create_session(u) has returned {token, expires_at},
\* validate_session(token) returns u, the stored row of u holds that token
\* verbatim together with the returned expires_at, and expires_at is the
\* time of issuance plus the fixed lifetime of 24*365*5 hours
C24_CreateThenValidate ==
    /\ [](\A u \in 1..nextUid :
             LET c == create_session(sessions, u, nextSid, now)
             IN  c.ok =>
                     /\ validate_session(c.sessions, c.sessionToken, now) = u
                     /\ c.expiresAt = now + SESSION_LIFETIME
                     /\ \E r \in c.sessions : /\ r.userId = u
                                              /\ r.sessionToken = c.sessionToken
                                              /\ r.expiresAt = c.expiresAt)
    /\ [][issued' # issued =>
            LET new == CHOOSE t \in issued' : t \notin issued
                u == new[1].user_id
                c == create_session(sessions, u, nextSid, now)
            IN  /\ c.ok
                /\ c.sessionToken = new
                /\ sessions' = c.sessions
                /\ validate_session(sessions', new, now') = u
                /\ \E r \in sessions' : /\ r.userId = u
                                        /\ r.sessionToken = new
                                        /\ r.expiresAt = c.expiresAt
                                        /\ r.expiresAt = now + SESSION_LIFETIME]_vars

\* a session was issued after the clock had advanced, to a user who held one
\* before: its row expires one lifetime after the issuance and validates
C24_Witness ==
    /\ resp.ep \in {"POST /register", "POST /login"}
    /\ now > 0
    /\ \E r \in sessions :
           /\ r.expiresAt = now + SESSION_LIFETIME
           /\ validate_session(sessions, r.sessionToken, now) = r.userId
           /\ \E t \in superseded : t[1].user_id = r.userId

\* C25: the lists GET /tasks and GET /tasks/user/{userId} return are in
\* non-increasing order of the time field: of any two adjacent tasks the
\* first one's time is greater than or equal to the second one's
C25_ListsOrderedByTimeDesc ==
    [][(Handled({"GET /tasks", "GET /tasks/user"}) /\ resp'.status = 200) =>
        /\ \A i \in 1..(Len(resp'.list) - 1) :
               resp'.list[i].time >= resp'.list[i + 1].time
        /\ ListSet(resp'.list) \subseteq tasks
        /\ resp'.ep = "GET /tasks" => ListSet(resp'.list) = tasks]_vars

\* a returned list holds a task in front of one that was created before it
\* and has a smaller time, and two tasks of equal time
C25_Witness ==
    /\ resp.ep \in {"GET /tasks", "GET /tasks/user"}
    /\ resp.status = 200
    /\ \E i \in 1..Len(resp.list) : \E j \in 1..Len(resp.list) :
           /\ i < j
           /\ resp.list[i].time > resp.list[j].time
           /\ resp.list[i].taskId > resp.list[j].taskId
    /\ \E i \in 1..Len(resp.list) : \E j \in 1..Len(resp.list) :
           i # j /\ resp.list[i].time = resp.list[j].time

\* C26 as stated: every stored task row has a status in {pending,
\* in_progress, completed, cancelled, on_hold}, and a POST /task or PUT /task
\* whose status is any other string is refused and changes no row
C26_OtherStatusRejected ==
    /\ [](\A r \in tasks :
             r.status \in {"pending", "in_progress", "completed", "cancelled",
                           "on_hold"})
    /\ [][(/\ Handled({"POST /task", "PUT /task"})
           /\ resp'.req # NoReq
           /\ resp'.req.status
                  \notin {"pending", "in_progress", "completed", "cancelled",
                          "on_hold"}) =>
               /\ resp'.status = 422
               /\ UNCHANGED <<tasks, nextTaskId>>]_vars

\* C26: every stored task row has a status in {pending, in_progress,
\* completed, cancelled, on_hold}; a POST /task or PUT /task whose status,
\* put in lower case, is any other value is refused before the handler runs
\* and changes no row
C26_StatusIsClosedEnumeration ==
    /\ [](\A r \in tasks :
             r.status \in {"pending", "in_progress", "completed", "cancelled",
                           "on_hold"})
    /\ [][(/\ Handled({"POST /task", "PUT /task"})
           /\ resp'.req # NoReq
           /\ LowerStatus(resp'.req.status)
                  \notin {"pending", "in_progress", "completed", "cancelled",
                          "on_hold"}) =>
               /\ resp'.status = 422
               /\ resp'.task = NoRow
               /\ UNCHANGED <<tasks, nextTaskId, ledger>>]_vars

\* an update of the caller's own task with a status outside the list was
\* refused with 422 and the row keeps the status stored from "PENDING"
C26_Witness ==
    /\ resp.ep = "PUT /task"
    /\ resp.status = 422
    /\ resp.req.status = "bogus"
    /\ \E r \in tasks : /\ r.taskId = resp.taskId
                        /\ r.userId = resp.user
                        /\ r.status = "pending"

\* the endpoints of the application
Endpoints ==
    BearerEndpoints \cup {"POST /register", "POST /login", "POST /logout",
                          "GET /session/validate"}

\* C27: the expiry sweep runs once in every process start, when the tables
\* are initialised and before any request is handled, and at no other time:
\* no request and no passing of time removes a row for its expiry; after the
\* sweep no row with an expiry at or before the sweep time is stored, and
\* every row stored later expires later, so the first request finds none
C27_SweepOnlyAtStartup ==
    /\ [](resp.ep = "startup" =>
             /\ phase = "serving"
             /\ \A r \in sessions : r.expiresAt > now)
    /\ [][/\ (phase = "stopped" /\ phase' = "serving") <=> Handled({"startup"})
          /\ Handled({"startup"}) =>
                 /\ sessions' = cleanup_expired_sessions(sessions, now).sessions
                 /\ now' = now
          /\ Handled(Endpoints) => phase = "serving" /\ phase' = "serving"
          /\ ~Handled({"startup"}) =>
                 /\ \A r \in sessions \ sessions' :
                        /\ Handled({"POST /register", "POST /login", "POST /logout"})
                        /\ validate_session(sessions, r.sessionToken, now) = NoUser =>
                               \E n \in sessions' \ sessions : n.userId = r.userId
                 /\ now' # now => sessions' = sessions
          /\ now' >= now
          /\ \A r \in sessions' \ sessions : r.expiresAt > now']_vars

\* the process was started again after a session had expired while it was
\* serving: the sweep removed the row that requests and time had left stored
C27_Witness ==
    /\ resp.ep = "startup"
    /\ resp.count > 0
    /\ tasks # {}
    /\ \A t \in issued : t[1].exp <= now

\* the slots whose POST /task has stored its row
Creations == {s \in Slots : inflight[s].op = "create" /\ inflight[s].taskId # NoTask}

\* C28: the owner of every task row is the user of the session that
\* authenticated the POST /task that created it (the request carries no user
\* ID of its own), no two creations get one task ID, and no step changes the
\* owner of a stored row, whatever updates are served, concurrently or not
C28_OwnerIsCreatorForever ==
    /\ [](/\ \A r \in tasks :
                \/ \E t \in tasks0 : t.taskId = r.taskId /\ t.userId = r.userId
                \/ \E s \in Creations :
                       /\ inflight[s].taskId = r.taskId
                       /\ r.userId = inflight[s].user
                       /\ r.userId = validate_session(sessions, TokenOf(inflight[s].auth),
                                                      now)
          /\ \A s1 \in Creations :
                /\ \A t \in tasks0 : t.taskId # inflight[s1].taskId
                /\ \A s2 \in Creations :
                       inflight[s1].taskId = inflight[s2].taskId => s1 = s2)
    /\ [][\A r \in tasks : \A n \in tasks' :
              n.taskId = r.taskId => n.userId = r.userId]_vars

\* a task was created while another user's update naming its ID was in
\* flight; the update was answered 403 and the row is its creator's
C28_Witness ==
    /\ Quiescent
    /\ \E s1 \in Creations : \E s2 \in Slots :
           /\ inflight[s2].op = "update"
           /\ inflight[s2].taskId = inflight[s1].taskId
           /\ inflight[s2].status = 403
           /\ inflight[s2].overlap
           /\ \E r \in tasks : /\ r.taskId = inflight[s1].taskId
                               /\ r.userId = inflight[s1].user
                               /\ r.userId # inflight[s2].user

\* C29: no 200 response of GET /tasks or GET /tasks/user/{userId} to an
\* authenticated caller lists a task whose owner is another user
C29_ListsHoldOnlyOwnTasks ==
    [][(Handled({"GET /tasks", "GET /tasks/user"}) /\ resp'.status = 200) =>
        /\ resp'.user = validate_session(sessions, TokenOf(resp'.auth), now)
        /\ \A i \in 1..Len(resp'.list) : resp'.list[i].userId = resp'.user]_vars

\* the slots whose logout removed a session
Logouts == {s \in Slots : inflight[s].op = "logout" /\ inflight[s].status = 200}

\* C30: a POST /logout presenting token T removes the row holding T and no
\* other row; when it is served concurrently with logins of the same user,
\* then once the requests are finished the session stored by a login of
\* that user (its token differs from T) is present and valid
C30_LogoutSparesConcurrentLogin ==
    /\ [][\A s \in Slots :
              (/\ inflight[s].op = "logout"
               /\ inflight[s].pc = "commit"
               /\ inflight'[s].pc = "done") =>
                  /\ sessions' \subseteq sessions
                  /\ \A r \in sessions \ sessions' :
                         r.sessionToken = inflight[s].auth]_vars
    /\ [](Quiescent =>
             \A u \in 1..nextUid :
                 LoginsOf(u) # {} =>
                     \E s \in LoginsOf(u) :
                         /\ inflight[s].token \notin ConcTokens
                         /\ \E r \in sessions : /\ r.sessionToken = inflight[s].token
                                                /\ r.userId = u
                         /\ validate_session(sessions, inflight[s].token, now) = u)

\* a logout and a login of one user were in flight together: the logout
\* removed the old session with 200 and the session the login stored is valid
C30_Witness ==
    /\ Quiescent
    /\ \E s1 \in Logouts : \E s2 \in LoginsOf(inflight[s1].user) :
           /\ inflight[s1].overlap \/ inflight[s2].overlap
           /\ inflight[s1].auth \in revoked
           /\ inflight[s1].auth # inflight[s2].token
           /\ validate_session(sessions, inflight[s2].token, now) = inflight[s1].user

\* C31: POST /register is all-or-nothing: when it answers 409 or 500 no
\* member row has been added, and when a member row has been added a session
\* row of that user is stored and the answer is 201
C31_RegisterAllOrNothing ==
    [][Handled({"POST /register"}) =>
        /\ resp'.status \in {409, 500} => members' = members
        /\ members' # members =>
               /\ resp'.status = 201
               /\ \A m \in members' \ members :
                      \E r \in sessions' : r.userId = m.userId]_vars

\* C32: no two session rows hold the same token, a token handed out by a
\* session creation was never handed out before, and a token validates to
\* no user other than the one it was issued for
C32_TokensUnique ==
    /\ [](/\ \A r1 \in sessions : \A r2 \in sessions :
                r1.sessionToken = r2.sessionToken => r1 = r2
          /\ \A t \in issued :
                validate_session(sessions, t, now) \in {NoUser, t[1].user_id})
    /\ [][/\ \A r \in sessions' \ sessions : r.sessionToken \notin issued
          /\ Handled({"POST /register", "POST /login"}) /\ sessions' # sessions
                => issued' # issued]_vars

\* a user holds a second token: the first was replaced by a login, the second
\* is stored and validates to that user
C32_Witness ==
    /\ resp.ep = "POST /login"
    /\ \E t1 \in issued : \E t2 \in issued :
          /\ t1 # t2
          /\ t1[1].user_id = t2[1].user_id
          /\ validate_session(sessions, t1, now) = NoUser
          /\ validate_session(sessions, t2, now) = t2[1].user_id

\* C33: a POST /login answered 401 leaves the session store as it was: every
\* session row is still stored and every token validates as before
C33_FailedLoginKeepsSessions ==
    [][(Handled({"POST /login"}) /\ resp'.status = 401) =>
          /\ sessions' = sessions
          /\ \A t \in issued : validate_session(sessions', t, now')
                               = validate_session(sessions, t, now)]_vars

\* a login with a registered email and a wrong password was answered 401 and
\* the session of that email's user is stored and validates
C33_Witness ==
    /\ resp.ep = "POST /login"
    /\ resp.status = 401
    /\ \E m \in members : \E r \in sessions :
          /\ m.email = NormEmail(resp.email)
          /\ m.password # NormPassword(resp.password)
          /\ r.userId = m.userId
          /\ validate_session(sessions, r.sessionToken, now) = m.userId

\* C34: when create_session fails at its INSERT, after its DELETE, the
\* deletion is not persisted: the session store is as before the request and
\* every token, the user's previous one included, validates as before
C34_FailedCreateKeepsSession ==
    [][(Handled({"POST /login"})
            /\ resp'.detail = "Failed to login: Failed to create session") =>
          /\ sessions' = sessions
          /\ \A r \in sessions :
                r.userId = getUser(members, NormEmail(resp'.email),
                                   NormPassword(resp'.password))
                => validate_session(sessions', r.sessionToken, now') = r.userId]_vars

\* a login of a user holding a valid session drew the session ID of another
\* user's row and was answered 500; the user's session is stored and validates
C34_Witness ==
    /\ resp.ep = "POST /login"
    /\ resp.detail = "Failed to login: Failed to create session"
    /\ \E r \in sessions :
          /\ r.userId = getUser(members, NormEmail(resp.email),
                                NormPassword(resp.password))
          /\ validate_session(sessions, r.sessionToken, now) = r.userId

\* C35: once a logout has answered 200, no task creation, update or deletion
\* sent with the logged-out token is committed, whether the request arrived
\* before or after the logout
C35_NoCommitAfterLogout ==
    [][\A s \in Slots :
          (/\ inflight[s].op \in {"create", "update", "delete"}
           /\ inflight[s].pc = "commit"
           /\ inflight'[s].pc # "commit")
          => TokenOf(inflight[s].auth) \notin revoked]_vars

\* a task request that arrived while a logout of its token was being handled
\* (or the logout while it was) was answered 401 after the logout's 200
C35_Witness ==
    \E s1 \in Slots : \E s2 \in Slots :
        /\ inflight[s1].op = "logout"
        /\ inflight[s1].pc = "done"
        /\ inflight[s1].status = 200
        /\ inflight[s2].op \in {"create", "update", "delete"}
        /\ inflight[s2].pc = "done"
        /\ inflight[s2].status = 401
        /\ TokenOf(inflight[s2].auth) = inflight[s1].auth
        /\ inflight[s1].overlap \/ inflight[s2].overlap

\* C36: task IDs are unique and never reused: every ID stored or about to be
\* stored lies below the sequence, the sequence never goes back and a new row
\* takes its ID from it, so a row created after a deletion never has the ID
\* of a deleted row; and a request that has passed the ownership check on an
\* ID finds under that ID no task of another user
C36_TaskIdsNeverReused ==
    /\ [](/\ \A t1 \in tasks : \A t2 \in tasks : t1.taskId = t2.taskId => t1 = t2
          /\ \A t \in tasks : t.taskId < nextTaskId
          /\ \A s \in Slots : \A t \in inflight[s].pending : t.taskId < nextTaskId
          /\ \A s \in Slots : inflight[s].pc = "write" =>
                \A t \in tasks : t.taskId = inflight[s].taskId
                                 => t.userId = inflight[s].user)
    /\ [][/\ nextTaskId' >= nextTaskId
          /\ \A s \in Slots : \A t \in inflight'[s].pending :
                (\A o \in tasks : o.taskId # t.taskId) => t.taskId >= nextTaskId
          /\ \A t \in tasks' :
                \/ \E o \in tasks : o.taskId = t.taskId /\ o.userId = t.userId
                \/ \E s \in Slots : t \in inflight[s].pending]_vars

\* a task was deleted and a task created afterwards: the new row has an ID
\* that neither the deleted row nor any row of the initial table had
C36_Witness ==
    \E s1 \in Slots : \E s2 \in Slots :
        /\ s1 < s2
        /\ inflight[s1].op = "delete"
        /\ inflight[s1].pc = "done"
        /\ inflight[s1].status = 200
        /\ inflight[s2].op = "create"
        /\ inflight[s2].pc = "done"
        /\ inflight[s2].status = 200
        /\ \E t \in tasks : t.taskId = inflight[s2].taskId
        /\ \A t \in tasks0 : t.taskId # inflight[s2].taskId
        /\ \A t \in tasks : t.taskId # inflight[s1].taskId

====
